---- MODULE Spec2Model ----
(***************************************************************************)
(* Model of the n8n ACTP node: the resilient executor (withTimeout,        *)
(* withRetry, executeWithProtection), the operation handlers and the       *)
(* node's execute loop, and the client cache.                              *)
(*                                                                         *)
(* Strings are sequences of one-character strings so that substring tests  *)
(* (String.prototype.includes) and case conversion are computed.           *)
(***************************************************************************)
EXTENDS Integers, Sequences, FiniteSets, TLC

(***************************************************************************)
(* Bounds of the exploration                                               *)
(***************************************************************************)
\* largest maxRetries argument passed to withRetry
MaxAttemptsBound == 3

(***************************************************************************)
(* Protocol constants                                                      *)
(***************************************************************************)
SDK_TIMEOUT_MS == 30000
MAX_RETRY_ATTEMPTS == 3
RETRY_BASE_DELAY_MS == 1000

(***************************************************************************)
(* String helpers                                                          *)
(***************************************************************************)
LowerOf == ("A" :> "a") @@ ("B" :> "b") @@ ("C" :> "c") @@ ("D" :> "d") @@ ("E" :> "e") @@ ("F" :> "f") @@ ("G" :> "g") @@ ("H" :> "h") @@ ("I" :> "i") @@ ("J" :> "j") @@ ("K" :> "k") @@ ("L" :> "l") @@ ("M" :> "m") @@ ("N" :> "n") @@ ("O" :> "o") @@ ("P" :> "p") @@ ("Q" :> "q") @@ ("R" :> "r") @@ ("S" :> "s") @@ ("T" :> "t") @@ ("U" :> "u") @@ ("V" :> "v") @@ ("W" :> "w") @@ ("X" :> "x") @@ ("Y" :> "y") @@ ("Z" :> "z")

toLowerCase(s) == [i \in 1..Len(s) |-> IF s[i] \in DOMAIN LowerOf THEN LowerOf[s[i]] ELSE s[i]]

includes(s, sub) == \E i \in 0..(Len(s) - Len(sub)) : SubSeq(s, i + 1, i + Len(sub)) = sub

RECURSIVE numberToString(_)
numberToString(n) == IF n < 10 THEN <<(<<"0", "1", "2", "3", "4", "5", "6", "7", "8", "9">>)[n + 1]>> ELSE numberToString(n \div 10) \o <<(<<"0", "1", "2", "3", "4", "5", "6", "7", "8", "9">>)[(n % 10) + 1]>>

(***************************************************************************)
(* Values that a promise can settle with.  kind "Error" is an Error object *)
(* whose message property is the message field; kind "string" is a bare    *)
(* string used as a rejection value (it has no message property); kind     *)
(* "undefined" is the undefined value; kind "value" is a success value.    *)
(***************************************************************************)
ErrorOf(msg) == [kind |-> "Error", message |-> msg]

UndefinedValue == [kind |-> "undefined", message |-> <<>>]

(***************************************************************************)
(* withTimeout: the timeout error, the timer, the race                     *)
(***************************************************************************)
TimeoutTimer_NoTimer(id, now, timeoutMs) == {}

\* setTimeout(() => reject(...), timeoutMs)
TimeoutTimer(id, now, timeoutMs) == {[kind |-> "timeout", at |-> now + timeoutMs, id |-> id]}

RaceSettle_Overwrite(race, outcome, by, now) == [state |-> outcome.state, value |-> outcome.value, by |-> by, at |-> now]

\* Promise.race: the first settlement wins, later ones are ignored
RaceSettle(race, outcome, by, now) == IF race.state = "pending" THEN [state |-> outcome.state, value |-> outcome.value, by |-> by, at |-> now] ELSE race

(***************************************************************************)
(* isRetryableError                                                        *)
(***************************************************************************)
isRetryableError_Always(error) == TRUE

\* defined for values whose message property is a string
isRetryableError(error) == LET message == toLowerCase(error.message) IN \E p \in ({ <<"r", "a", "t", "e", " ", "l", "i", "m", "i", "t">>, <<"t", "i", "m", "e", "o", "u", "t">>, <<"n", "e", "t", "w", "o", "r", "k">>, <<"e", "c", "o", "n", "n", "r", "e", "s", "e", "t">>, <<"e", "c", "o", "n", "n", "r", "e", "f", "u", "s", "e", "d">>, <<"s", "o", "c", "k", "e", "t", " ", "h", "a", "n", "g", " ", "u", "p">>, <<"f", "e", "t", "c", "h", " ", "f", "a", "i", "l", "e", "d">> }) : includes(message, p)

(***************************************************************************)
(* withRetry: the backoff delay and the catch block                        *)
(***************************************************************************)
BackoffDelay_Constant(baseDelay, attempt) == baseDelay

\* baseDelay * Math.pow(2, attempt)
BackoffDelay(baseDelay, attempt) == baseDelay * (2 ^ attempt)

\* the catch block of withRetry: what follows a rejected attempt
CatchBlock(error, attempt, maxRetries, baseDelay) ==
    LET isLastAttempt == attempt = maxRetries - 1 IN
    IF isLastAttempt THEN [act |-> "throw", value |-> error, delay |-> 0]
    ELSE IF ~(error.kind \in {"Error", "TypeError"}) THEN [act |-> "throw", value |-> ([kind |-> "TypeError", message |-> <<"C", "a", "n", "n", "o", "t", " ", "r", "e", "a", "d", " ", "p", "r", "o", "p", "e", "r", "t", "i", "e", "s", " ", "o", "f", " ", "u", "n", "d", "e", "f", "i", "n", "e", "d">>]), delay |-> 0]
    ELSE IF ~isRetryableError(error) THEN [act |-> "throw", value |-> error, delay |-> 0]
    ELSE [act |-> "sleep", value |-> error, delay |-> BackoffDelay(baseDelay, attempt)]

(***************************************************************************)
(* Inputs of the executor                                                  *)
(***************************************************************************)
Never == -1

\* how long the underlying operation takes to settle (ms), or Never
Latencies == {100, 30000, 40000, Never}

OkValue == [kind |-> "value", message |-> <<"o", "k">>]

\* what the underlying operation settles with
FnOutcomes == { [state |-> "fulfilled", value |-> OkValue],
                [state |-> "rejected", value |-> ErrorOf(<<"E", "C", "O", "N", "N", "R", "E", "S", "E", "T">>)],
                [state |-> "rejected", value |-> ErrorOf(<<"R", "e", "q", "u", "e", "s", "t", " ", "t", "i", "m", "e", "o", "u", "t">>)],
                [state |-> "rejected", value |-> ErrorOf(<<"r", "e", "v", "e", "r", "t", "e", "d">>)],
                [state |-> "rejected", value |-> ErrorOf(<<>>)],
                [state |-> "rejected", value |-> [kind |-> "string", message |-> <<"b", "o", "o", "m">>]],
                [state |-> "rejected", value |-> UndefinedValue] }

\* operation labels: two that the handlers pass to executeWithProtection and
\* one, of another caller, that holds a word isRetryableError looks for
Labels == { <<"g", "e", "t", "T", "r", "a", "n", "s", "a", "c", "t", "i", "o", "n">>,
            <<"r", "e", "l", "e", "a", "s", "e", "E", "s", "c", "r", "o", "w">>,
            <<"s", "y", "n", "c", "N", "e", "t", "w", "o", "r", "k">> }

\* the three exported entry points and their arguments
ExecutorCalls ==
    { [mode |-> "withRetry", maxRetries |-> m, baseDelay |-> d, timeoutMs |-> 0, operation |-> <<>>] :
          m \in 0..MaxAttemptsBound, d \in ({RETRY_BASE_DELAY_MS, 250}) }
    \cup { [mode |-> "executeWithProtection", maxRetries |-> MAX_RETRY_ATTEMPTS, baseDelay |-> RETRY_BASE_DELAY_MS,
            timeoutMs |-> SDK_TIMEOUT_MS, operation |-> l] : l \in Labels }
    \cup { [mode |-> "withTimeout", maxRetries |-> 1, baseDelay |-> 0, timeoutMs |-> t, operation |-> l] :
          t \in ({SDK_TIMEOUT_MS, 50}), l \in Labels }

(***************************************************************************)
(* State                                                                   *)
(***************************************************************************)
VARIABLES
    args,       \* arguments of the executor call in progress
    pc,         \* "idle" | "attempting" | "sleeping" | "settled"
    attempt,    \* loop variable of withRetry
    lastError,  \* lastError of withRetry
    clock,      \* current time, ms since the call
    ops,        \* invocations of the underlying operation, in order
    races,      \* the promise awaited for each attempt
    timers,     \* pending setTimeout timers
    waits,      \* backoff delays slept so far
    result,     \* the promise returned to the caller
    clientCache,  \* the module-level Map from cache key to client
    callers,      \* createClientFromCredentials calls in progress, per caller
    creates,      \* every ACTPClient.create invocation; a client is its index
    returned,     \* completed createClientFromCredentials calls, in order
    epoch,        \* number of clearClientCache calls so far
    nodePc,          \* "idle" | "running" | "returned" | "thrown"
    mode,            \* the node's mode parameter
    continueOnFail,  \* this.continueOnFail()
    items,           \* items.length
    itemIndex,       \* loop variable i of execute
    returnData,      \* returnData of execute
    thrownError,     \* the error that left execute
    sdkCalls,        \* SDK calls issued for the item processed last
    sample,          \* the argument a utility function is called with
    outputs          \* what the successive calls on the sample returned

execVars == <<args, pc, attempt, lastError, clock, ops, races, timers, waits, result>>

cacheVars == <<clientCache, callers, creates, returned, epoch>>

nodeVars == <<nodePc, mode, continueOnFail, items, itemIndex, returnData, thrownError, sdkCalls>>

utilVars == <<sample, outputs>>

vars == <<args, pc, attempt, lastError, clock, ops, races, timers, waits, result,
          clientCache, callers, creates, returned, epoch,
          nodePc, mode, continueOnFail, items, itemIndex, returnData, thrownError, sdkCalls,
         sample, outputs>>

InitExecutor ==
    /\ args = ([mode |-> "none", maxRetries |-> 0, baseDelay |-> 0, timeoutMs |-> 0, operation |-> <<>>])
    /\ pc = "idle"
    /\ attempt = 0
    /\ lastError = UndefinedValue
    /\ clock = 0
    /\ ops = <<>>
    /\ races = <<>>
    /\ timers = {}
    /\ waits = <<>>
    /\ result = ([state |-> "pending", value |-> UndefinedValue, at |-> 0])

UsesTimeout(a) == a.mode \in {"executeWithProtection", "withTimeout"}

\* one attempt: fn() is invoked and, under a timeout, raced against a fresh timer
Invoke(a, lat, out, baseTimers) ==
    /\ ops' = Append(ops, [startedAt |-> clock, settleAt |-> IF lat = Never THEN Never ELSE clock + lat,
                           outcome |-> out, settled |-> FALSE])
    /\ races' = Append(races, ([state |-> "pending", value |-> UndefinedValue, by |-> "none", at |-> 0]))
    /\ timers' = baseTimers \cup (IF UsesTimeout(a) THEN TimeoutTimer(Len(ops) + 1, clock, a.timeoutMs) ELSE {})
    /\ pc' = "attempting"

\* the awaited promise of the current attempt settled with outcome
Continue(outcome, newOps, newRaces, baseTimers) ==
    /\ races' = newRaces
    /\ ops' = newOps
    /\ IF outcome.state = "fulfilled" \/ args.mode = "withTimeout"
       THEN /\ result' = [state |-> outcome.state, value |-> outcome.value, at |-> clock]
            /\ pc' = "settled"
            /\ timers' = baseTimers
            /\ UNCHANGED <<lastError, waits>>
       ELSE LET c == CatchBlock(outcome.value, attempt, args.maxRetries, args.baseDelay) IN
            /\ lastError' = outcome.value
            /\ IF c.act = "throw"
               THEN /\ result' = [state |-> "rejected", value |-> c.value, at |-> clock]
                    /\ pc' = "settled"
                    /\ timers' = baseTimers
                    /\ waits' = waits
               ELSE /\ pc' = "sleeping"
                    /\ timers' = baseTimers \cup {[kind |-> "sleep", at |-> clock + c.delay, id |-> attempt]}
                    /\ waits' = Append(waits, c.delay)
                    /\ result' = result

\* withRetry / executeWithProtection / withTimeout is called
Call ==
    /\ pc = "idle"
    /\ \E a \in ExecutorCalls :
        /\ args' = a
        /\ IF 0 < a.maxRetries
           THEN /\ \E lat \in Latencies, out \in FnOutcomes : Invoke(a, lat, out, timers)
                /\ result' = result
           ELSE /\ pc' = "settled"
                /\ result' = [state |-> "rejected", value |-> lastError, at |-> clock]
                /\ UNCHANGED <<ops, races, timers>>
    /\ UNCHANGED <<attempt, lastError, clock, waits>>
    /\ UNCHANGED cacheVars
    /\ UNCHANGED <<nodeVars, utilVars>>

\* the underlying operation of invocation i settles
OpSettles ==
    \E i \in 1..Len(ops) :
        /\ ~ops[i].settled
        /\ ops[i].settleAt # Never
        /\ ops[i].settleAt <= clock
        /\ LET settledOps == [ops EXCEPT ![i].settled = TRUE]
               newRaces == [races EXCEPT ![i] = RaceSettle(races[i], ops[i].outcome, "op", clock)]
           IN IF newRaces # races /\ i = Len(ops) /\ pc = "attempting"
              THEN /\ Continue(ops[i].outcome, settledOps, newRaces, timers)
                   /\ UNCHANGED <<args, attempt, clock>>
              ELSE /\ races' = newRaces
                   /\ ops' = settledOps
                   /\ UNCHANGED <<args, pc, attempt, lastError, clock, timers, waits, result>>
    /\ UNCHANGED cacheVars
    /\ UNCHANGED <<nodeVars, utilVars>>

\* the timeout timer of attempt t.id fires
TimeoutFires ==
    \E t \in timers :
        /\ t.kind = "timeout"
        /\ t.at <= clock
        /\ LET outcome == [state |-> "rejected", value |-> (ErrorOf(args.operation \o (<<" ", "t", "i", "m", "e", "d", " ", "o", "u", "t", " ", "a", "f", "t", "e", "r", " ">>) \o numberToString(args.timeoutMs) \o <<"m", "s">>))]
               newRaces == [races EXCEPT ![t.id] = RaceSettle(races[t.id], outcome, "timer", clock)]
           IN IF newRaces # races /\ t.id = Len(ops) /\ pc = "attempting"
              THEN /\ Continue(outcome, ops, newRaces, timers \ {t})
                   /\ UNCHANGED <<args, attempt, clock>>
              ELSE /\ races' = newRaces
                   /\ timers' = timers \ {t}
                   /\ UNCHANGED <<args, pc, attempt, lastError, clock, ops, waits, result>>
    /\ UNCHANGED cacheVars
    /\ UNCHANGED <<nodeVars, utilVars>>

\* the backoff sleep ends: attempt++ and the loop body runs again
BackoffFires ==
    \E t \in timers :
        /\ t.kind = "sleep"
        /\ t.at <= clock
        /\ pc = "sleeping"
        /\ attempt' = attempt + 1
        /\ IF attempt + 1 < args.maxRetries
           THEN /\ \E lat \in Latencies, out \in FnOutcomes : Invoke(args, lat, out, timers \ {t})
                /\ result' = result
           ELSE /\ pc' = "settled"
                /\ result' = [state |-> "rejected", value |-> lastError, at |-> clock]
                /\ timers' = timers \ {t}
                /\ UNCHANGED <<ops, races>>
        /\ UNCHANGED <<args, lastError, clock, waits>>
    /\ UNCHANGED cacheVars
    /\ UNCHANGED <<nodeVars, utilVars>>

EventTimes == {t.at : t \in timers} \cup {ops[i].settleAt : i \in {j \in 1..Len(ops) : ~ops[j].settled /\ ops[j].settleAt # Never}}

\* time passes until the next timer or completion is due
Advance ==
    /\ EventTimes # {}
    /\ \A e \in EventTimes : e > clock
    /\ clock' = CHOOSE e \in EventTimes : \A f \in EventTimes : e <= f
    /\ UNCHANGED <<args, pc, attempt, lastError, ops, races, timers, waits, result>>
    /\ UNCHANGED cacheVars
    /\ UNCHANGED <<nodeVars, utilVars>>

NextExecutor == Call \/ OpSettles \/ TimeoutFires \/ BackoffFires \/ Advance

(***************************************************************************)
(* Client factory: credentials, cache key, validation                      *)
(***************************************************************************)
Repeat(c, n) == [i \in 1..n |-> c]

HexDigits == {"0", "1", "2", "3", "4", "5", "6", "7", "8", "9", "a", "b", "c", "d", "e", "f", "A", "B", "C", "D", "E", "F"}

startsWith(s, p) == Len(s) >= Len(p) /\ SubSeq(s, 1, Len(p)) = p

NoError == [kind |-> "none", message |-> <<>>]

\* /^0x[0-9a-fA-F]{64}$/
IsPrefixedHex64(s) == Len(s) = 66 /\ startsWith(s, <<"0", "x">>) /\ \A i \in 3..66 : s[i] \in HexDigits

\* the error validatePrivateKey throws, or NoError
validatePrivateKey(privateKey) ==
    IF privateKey = <<>> THEN ErrorOf(<<"P", "r", "i", "v", "a", "t", "e", " ", "k", "e", "y", " ", "i", "s", " ", "r", "e", "q", "u", "i", "r", "e", "d", " ", "f", "o", "r", " ", "t", "e", "s", "t", "n", "e", "t", "/", "m", "a", "i", "n", "n", "e", "t", " ", "m", "o", "d", "e">>)
    ELSE IF ~startsWith(privateKey, <<"0", "x">>) THEN ErrorOf(<<"P", "r", "i", "v", "a", "t", "e", " ", "k", "e", "y", " ", "m", "u", "s", "t", " ", "s", "t", "a", "r", "t", " ", "w", "i", "t", "h", " ", "0", "x">>)
    ELSE IF ~IsPrefixedHex64(privateKey) THEN ErrorOf(<<"I", "n", "v", "a", "l", "i", "d", " ", "p", "r", "i", "v", "a", "t", "e", " ", "k", "e", "y", " ", "f", "o", "r", "m", "a", "t", ".", " ", "M", "u", "s", "t", " ", "b", "e", " ", "0", "x", " ", "f", "o", "l", "l", "o", "w", "e", "d", " ", "b", "y", " ", "6", "4", " ", "h", "e", "x", " ", "c", "h", "a", "r", "a", "c", "t", "e", "r", "s", ".">>)
    ELSE NoError

\* x || 'default'
OrDefault(x) == IF x = <<>> THEN <<"d", "e", "f", "a", "u", "l", "t">> ELSE x

\* the template string, kept as the tuple of its interpolated parts
generateCacheKey(credentials) ==
    IF credentials.environment = <<"m", "o", "c", "k">> THEN <<<<"m", "o", "c", "k">>, OrDefault(credentials.mockAddress)>>
    ELSE IF credentials.privateKey # <<>>
         THEN <<credentials.environment, ([keccak64 |-> credentials.privateKey]), OrDefault(credentials.rpcUrl)>>
         ELSE <<credentials.environment, OrDefault(credentials.rpcUrl)>>

\* what the synchronous part of createClientFromCredentials throws after a
\* cache miss, or NoError when it goes on to call ACTPClient.create
PreCreateError(credentials) ==
    IF credentials.environment = <<"m", "o", "c", "k">> THEN NoError
    ELSE IF credentials.environment \in {<<"t", "e", "s", "t", "n", "e", "t">>, <<"m", "a", "i", "n", "n", "e", "t">>} THEN validatePrivateKey(credentials.privateKey)
    ELSE ErrorOf(<<"U", "n", "k", "n", "o", "w", "n", " ", "e", "n", "v", "i", "r", "o", "n", "m", "e", "n", "t", ":", " ">> \o credentials.environment \o <<".", " ", "U", "s", "e", " ", "'", "m", "o", "c", "k", "'", ",", " ", "'", "t", "e", "s", "t", "n", "e", "t", "'", ",", " ", "o", "r", " ", "'", "m", "a", "i", "n", "n", "e", "t", "'", ".">>)

CreateRejection == ErrorOf(<<"R", "P", "C", " ", "u", "n", "r", "e", "a", "c", "h", "a", "b", "l", "e">>)

(***************************************************************************)
(* Inputs of the client factory                                            *)
(***************************************************************************)
\* number of concurrent callers of createClientFromCredentials
NumCallers == 2

\* total number of createClientFromCredentials calls explored
MaxClientCalls == 3

\* number of clearClientCache calls explored
MaxClears == 1

Callers == 1..NumCallers

Cred(env, mockAddress, stateDirectory, privateKey, rpcUrl) ==
    [environment |-> env, mockAddress |-> mockAddress, stateDirectory |-> stateDirectory,
     privateKey |-> privateKey, rpcUrl |-> rpcUrl]

CredentialChoices ==
    { Cred(<<"m", "o", "c", "k">>, <<>>, <<>>, <<>>, <<>>),
      Cred(<<"m", "o", "c", "k">>, <<>>, <<"/", "t", "m", "p", "/", "a", "c", "t", "p">>, <<>>, <<>>),
      Cred(<<"t", "e", "s", "t", "n", "e", "t">>, <<>>, <<>>, <<"0", "x">> \o Repeat("a", 64), <<>>),
      Cred(<<"t", "e", "s", "t", "n", "e", "t">>, <<>>, <<>>, <<"0", "x">> \o Repeat("a", 32), <<>>),
      Cred(<<"s", "t", "a", "g", "i", "n", "g">>, <<>>, <<>>, <<>>, <<>>) }

(***************************************************************************)
(* createClientFromCredentials and clearClientCache                        *)
(***************************************************************************)
IdleCaller == [pc |-> "idle", credentials |-> Cred(<<>>, <<>>, <<>>, <<>>, <<>>), cacheKey |-> <<>>, client |-> 0, epoch0 |-> 0]

InitCache ==
    /\ clientCache = <<>>
    /\ callers = [p \in Callers |-> IdleCaller]
    /\ creates = <<>>
    /\ returned = <<>>
    /\ epoch = 0

Completed(p, credentials, client, error, epoch0) ==
    [credentials |-> credentials, client |-> client, error |-> error, epoch0 |-> epoch0, epoch1 |-> epoch]

\* a call up to its first await: cache lookup, validation, ACTPClient.create
CallCreateClient ==
    \E p \in Callers, credentials \in CredentialChoices :
        /\ callers[p].pc = "idle"
        /\ (Len(returned) + Cardinality({q \in Callers : callers[q].pc # "idle"})) < MaxClientCalls
        /\ LET cacheKey == generateCacheKey(credentials) IN
           IF (cacheKey \in DOMAIN clientCache)
           THEN /\ returned' = Append(returned, Completed(p, credentials, clientCache[cacheKey], NoError, epoch))
                /\ UNCHANGED <<callers, creates>>
           ELSE IF PreCreateError(credentials) # NoError
           THEN /\ returned' = Append(returned, Completed(p, credentials, 0, PreCreateError(credentials), epoch))
                /\ UNCHANGED <<callers, creates>>
           ELSE /\ creates' = Append(creates, [config |-> (IF credentials.environment = <<"m", "o", "c", "k">> THEN [mode |-> <<"m", "o", "c", "k">>, requesterAddress |-> IF credentials.mockAddress = <<>> THEN (<<"0", "x">> \o Repeat("1", 40)) ELSE credentials.mockAddress, privateKey |-> <<>>, rpcUrl |-> <<>>, stateDirectory |-> credentials.stateDirectory] ELSE [mode |-> credentials.environment, requesterAddress |-> ([addressOf |-> credentials.privateKey]), privateKey |-> credentials.privateKey, rpcUrl |-> credentials.rpcUrl, stateDirectory |-> <<>>]), credentials |-> credentials,
                                               epoch |-> epoch, state |-> "pending"])
                /\ callers' = [callers EXCEPT ![p] = [pc |-> "creating", credentials |-> credentials,
                                                      cacheKey |-> cacheKey, client |-> Len(creates) + 1, epoch0 |-> epoch]]
                /\ returned' = returned
        /\ UNCHANGED <<clientCache, epoch>>
        /\ UNCHANGED execVars
        /\ UNCHANGED <<nodeVars, utilVars>>

\* ACTPClient.create resolves: the client is cached and returned
CreateResolves ==
    \E p \in Callers :
        /\ callers[p].pc = "creating"
        /\ creates' = [creates EXCEPT ![callers[p].client].state = "resolved"]
        /\ clientCache' = ([k \in (DOMAIN clientCache) \cup {callers[p].cacheKey} |-> IF k = callers[p].cacheKey THEN callers[p].client ELSE clientCache[k]])
        /\ returned' = Append(returned, Completed(p, callers[p].credentials, callers[p].client, NoError, callers[p].epoch0))
        /\ callers' = [callers EXCEPT ![p] = IdleCaller]
        /\ UNCHANGED epoch
        /\ UNCHANGED execVars
        /\ UNCHANGED <<nodeVars, utilVars>>

\* CreateRejects with the cache entry set before the promise is awaited
CreateRejects_Cached ==
    \E p \in Callers :
        /\ callers[p].pc = "creating"
        /\ creates' = [creates EXCEPT ![callers[p].client].state = "rejected"]
        /\ returned' = Append(returned, Completed(p, callers[p].credentials, 0, CreateRejection, callers[p].epoch0))
        /\ callers' = [callers EXCEPT ![p] = IdleCaller]
        /\ clientCache' = ([k \in (DOMAIN clientCache) \cup {callers[p].cacheKey} |-> IF k = callers[p].cacheKey THEN callers[p].client ELSE clientCache[k]])
        /\ UNCHANGED epoch
        /\ UNCHANGED execVars
        /\ UNCHANGED <<nodeVars, utilVars>>

\* ACTPClient.create rejects: the rejection propagates, nothing is cached
CreateRejects ==
    \E p \in Callers :
        /\ callers[p].pc = "creating"
        /\ creates' = [creates EXCEPT ![callers[p].client].state = "rejected"]
        /\ returned' = Append(returned, Completed(p, callers[p].credentials, 0, CreateRejection, callers[p].epoch0))
        /\ callers' = [callers EXCEPT ![p] = IdleCaller]
        /\ UNCHANGED <<clientCache, epoch>>
        /\ UNCHANGED execVars
        /\ UNCHANGED <<nodeVars, utilVars>>

\* clientCache.clear()
ClearClientCache ==
    /\ epoch < MaxClears
    /\ clientCache' = <<>>
    /\ epoch' = epoch + 1
    /\ UNCHANGED <<callers, creates, returned>>
    /\ UNCHANGED execVars
    /\ UNCHANGED <<nodeVars, utilVars>>

NextCache == CallCreateClient \/ CreateResolves \/ CreateRejects \/ ClearClientCache

(***************************************************************************)
(* Input values, errors and the JavaScript primitives the parsers use      *)
(***************************************************************************)
\* a node parameter is a string or a number
Str(s) == [type |-> "string", str |-> s, num |-> 0]

Num(n) == [type |-> "number", str |-> <<>>, num |-> n]

\* an error of the node layer; `sanitized` records whether its message is
\* an output of sanitizeError
NoNodeError == [kind |-> "none", message |-> <<>>, sanitized |-> TRUE]

\* new Error(text)
NewError(text) == [kind |-> "Error", message |-> text, sanitized |-> FALSE]

\* what a call came back with: its value, or what it threw
Absent == "null"

Ok(value) == [ok |-> TRUE, value |-> value, error |-> NoNodeError]

Throws(error) == [ok |-> FALSE, value |-> Absent, error |-> error]

Digits == {"0", "1", "2", "3", "4", "5", "6", "7", "8", "9"}

WhiteSpace == {" ", "\t", "\n", "\r"}

trim(s) ==
    LET Between(kept) ==
            IF kept = {} THEN <<>>
            ELSE SubSeq(s, CHOOSE i \in kept : \A j \in kept : i <= j, CHOOSE i \in kept : \A j \in kept : i >= j)
    IN Between({ i \in 1..Len(s) : s[i] \notin WhiteSpace })

AllIn(s, chars) == \A i \in 1..Len(s) : s[i] \in chars

\* the position of the first occurrence of sub in s, or 0
IndexOf(s, sub) ==
    LET First(at) == IF at = {} THEN 0 ELSE CHOOSE i \in at : \A j \in at : i <= j IN
    First({ i \in 1..(Len(s) + 1 - Len(sub)) : SubSeq(s, i, i + Len(sub) - 1) = sub })

\* String(value), as a template literal interpolates it
ToStr(v) ==
    IF v.type = "string" THEN v.str
    ELSE IF v.num < 0 THEN <<"-">> \o numberToString(0 - v.num) ELSE numberToString(v.num)

\* the value of a run of digits in the given radix; 0 for the empty run
RECURSIVE parseInt(_, _)
parseInt(s, radix) ==
    LET digit == toLowerCase(<<s[Len(s)]>>)
        value == IndexOf(<<"0", "1", "2", "3", "4", "5", "6", "7", "8", "9", "a", "b", "c", "d", "e", "f">>, digit) - 1
    IN IF s = <<>> THEN 0 ELSE parseInt(SubSeq(s, 1, Len(s) - 1), radix) * radix + value

NaN == [nan |-> TRUE, neg |-> FALSE, int |-> 0, frac |-> <<>>]

Finite(neg, int, frac) == [nan |-> FALSE, neg |-> neg, int |-> int, frac |-> frac]

\* Number(string): StringToNumber over trimmed text; the empty string is 0,
\* a 0x prefix reads a hexadecimal integer, a sign may precede a decimal
\* literal (digits, digits.digits, digits. or .digits). Exponents and
\* Infinity are not among the inputs of this model.
ToNumber(s) ==
    LET t == trim(s)
        DecimalLiteral(u, neg) ==
            LET dot == IndexOf(u, <<".">>)
                whole == IF dot = 0 THEN u ELSE SubSeq(u, 1, dot - 1)
                frac == IF dot = 0 THEN <<>> ELSE SubSeq(u, dot + 1, Len(u))
            IN IF AllIn(whole, Digits) /\ AllIn(frac, Digits) /\ Len(whole) + Len(frac) > 0
               THEN Finite(neg, parseInt(whole, 10), frac)
               ELSE NaN
    IN IF t = <<>> THEN Finite(FALSE, 0, <<>>)
       ELSE IF Len(t) > 2 /\ toLowerCase(SubSeq(t, 1, 2)) = <<"0", "x">> /\ AllIn(SubSeq(t, 3, Len(t)), HexDigits)
            THEN Finite(FALSE, parseInt(SubSeq(t, 3, Len(t)), 16), <<>>)
       ELSE DecimalLiteral(IF Head(t) \in {"-", "+"} THEN Tail(t) ELSE t, Head(t) = "-")

\* Math.floor
floor(n) ==
    IF n.neg THEN (IF AllIn(n.frac, {"0"}) THEN 0 - n.int ELSE 0 - (n.int + 1)) ELSE n.int

(***************************************************************************)
(* Date.parse for the ISO form YYYY-MM-DDTHH:mm:ssZ, in whole seconds      *)
(* (the form has no milliseconds); other text is not a date                *)
(***************************************************************************)
DateParse(s) ==
    LET NotADate == [nan |-> TRUE, seconds |-> 0]
        \* days from 1970-01-01 to the civil date y-m-d
        DaysFromCivil(y, m, d) ==
            LET yy == IF m <= 2 THEN y - 1 ELSE y
                era == yy \div 400
                yoe == yy - era * 400
                mp == IF m > 2 THEN m - 3 ELSE m + 9
                doy == (153 * mp + 2) \div 5 + d - 1
                doe == yoe * 365 + yoe \div 4 - yoe \div 100 + doy
            IN era * 146097 + doe - 719468
        DaysInMonth(y, m) ==
            IF m = 2 THEN (IF (y % 4 = 0 /\ y % 100 # 0) \/ y % 400 = 0 THEN 29 ELSE 28)
            ELSE IF m \in {4, 6, 9, 11} THEN 30 ELSE 31
        Seconds(y, m, d, hh, mm, ss) ==
            IF m \in 1..12 /\ d \in 1..DaysInMonth(y, m) /\ hh <= 23 /\ mm <= 59 /\ ss <= 59
            THEN [nan |-> FALSE, seconds |-> DaysFromCivil(y, m, d) * 86400 + hh * 3600 + mm * 60 + ss]
            ELSE NotADate
    IN IF /\ Len(s) = 20
          /\ \A i \in {1, 2, 3, 4, 6, 7, 9, 10, 12, 13, 15, 16, 18, 19} : s[i] \in Digits
          /\ s[5] = "-" /\ s[8] = "-" /\ s[11] = "T" /\ s[14] = ":" /\ s[17] = ":" /\ s[20] = "Z"
       THEN Seconds(parseInt(SubSeq(s, 1, 4), 10), parseInt(SubSeq(s, 6, 7), 10), parseInt(SubSeq(s, 9, 10), 10),
                    parseInt(SubSeq(s, 12, 13), 10), parseInt(SubSeq(s, 15, 16), 10), parseInt(SubSeq(s, 18, 19), 10))
       ELSE NotADate

\* Math.floor(Date.now() / 1000) at the time of the call
NowSeconds == 1700000000

(***************************************************************************)
(* secrets.ts: limits and address check                                    *)
(***************************************************************************)
MAX_INPUT_LENGTHS == [amount |-> 1024, address |-> 256, transactionId |-> 256, deadline |-> 256, disputeWindow |-> 256, errorMessage |-> 10000]

ZeroAddress == <<"0", "x">> \o Repeat("0", 40)

isZeroAddress(address) == address # <<>> /\ toLowerCase(trim(address)) = ZeroAddress

\* ethers isAddress: 40 hex digits with an optional 0x prefix; digits of one
\* case carry no checksum, and no mixed-case input of this model carries a
\* valid one
isAddress(s) ==
    LET body == IF startsWith(s, <<"0", "x">>) THEN SubSeq(s, 3, Len(s)) ELSE s
    IN /\ Len(body) = 40
       /\ \/ AllIn(body, Digits \cup {"a", "b", "c", "d", "e", "f"})
          \/ AllIn(body, Digits \cup {"A", "B", "C", "D", "E", "F"})

(***************************************************************************)
(* parsers.ts: each parser returns its value or throws an Error            *)
(***************************************************************************)
TooLong(what, length, max) ==
    Throws(NewError(what \o <<" ", "i", "n", "p", "u", "t", " ", "t", "o", "o", " ", "l", "o", "n", "g", " ", "(">> \o numberToString(length) \o <<" ", "c", "h", "a", "r", "s", ")", ".", " ", "M", "a", "x", "i", "m", "u", "m", " ">> \o numberToString(max) \o <<" ", "c", "h", "a", "r", "a", "c", "t", "e", "r", "s", " ", "a", "l", "l", "o", "w", "e", "d", ".">>))

\* ethers parseUnits(value, decimals): /^(-?)([0-9]*)\.?([0-9]*)$/ with at
\* least one digit and no non-zero digit past the decimals
parseUnits(value, decimals) ==
    LET neg == value # <<>> /\ Head(value) = "-"
        body == IF neg THEN Tail(value) ELSE value
        dot == IndexOf(body, <<".">>)
        whole == IF dot = 0 THEN body ELSE SubSeq(body, 1, dot - 1)
        decimal == IF dot = 0 THEN <<>> ELSE SubSeq(body, dot + 1, Len(body))
        frac == decimal \o [i \in 1..(decimals - Len(decimal)) |-> "0"]
    IN IF ~(AllIn(whole, Digits) /\ AllIn(decimal, Digits) /\ Len(whole) + Len(decimal) > 0)
       THEN Throws(NewError(<<"i", "n", "v", "a", "l", "i", "d", " ", "F", "i", "x", "e", "d", "N", "u", "m", "b", "e", "r", " ", "s", "t", "r", "i", "n", "g", " ", "v", "a", "l", "u", "e">>))
       ELSE IF ~AllIn(SubSeq(frac, decimals + 1, Len(frac)), {"0"})
       THEN Throws(NewError(<<"t", "o", "o", " ", "m", "a", "n", "y", " ", "d", "e", "c", "i", "m", "a", "l", "s", " ", "f", "o", "r", " ", "f", "o", "r", "m", "a", "t">>))
       ELSE Ok((IF neg THEN -1 ELSE 1) * parseInt(whole \o SubSeq(frac, 1, decimals), 10))

\* parseAmount with `<=` for `<` in the minimum check
parseAmount_ExclusiveMinimum(amount) ==
    LET amountStr == ToStr(amount)
        \* amountStr.replace(/[$ ,]/g, '').trim()
        cleaned == trim(SelectSeq(amountStr, LAMBDA c : c \notin {"$", " ", ","}))
        parsedAmount == parseUnits(cleaned, 6)
    IN IF Len(amountStr) > MAX_INPUT_LENGTHS.amount
       THEN TooLong(<<"A", "m", "o", "u", "n", "t">>, Len(amountStr), MAX_INPUT_LENGTHS.amount)
       ELSE IF cleaned = <<>> \/ ToNumber(cleaned).nan
       THEN Throws(NewError(<<"I", "n", "v", "a", "l", "i", "d", " ", "a", "m", "o", "u", "n", "t", ":", " ", "\"">> \o ToStr(amount) \o <<"\"", ".", " ", "U", "s", "e", " ", "a", " ", "n", "u", "m", "b", "e", "r", " ", "l", "i", "k", "e", " ", "\"", "1", "0", "0", "\"", " ", "o", "r", " ", "\"", "1", "0", "0", ".", "5", "0", "\"">>))
       ELSE IF ~parsedAmount.ok THEN parsedAmount
       ELSE IF parsedAmount.value <= 50000
       THEN Throws(NewError(<<"A", "m", "o", "u", "n", "t", " ", "m", "u", "s", "t", " ", "b", "e", " ", "a", "t", " ", "l", "e", "a", "s", "t", " ", "$", "0", ".", "0", "5", ".", " ", "G", "o", "t", ":", " ", "$">> \o cleaned))
       ELSE parsedAmount

parseAmount(amount) ==
    LET amountStr == ToStr(amount)
        \* amountStr.replace(/[$ ,]/g, '').trim()
        cleaned == trim(SelectSeq(amountStr, LAMBDA c : c \notin {"$", " ", ","}))
        parsedAmount == parseUnits(cleaned, 6)
    IN IF Len(amountStr) > MAX_INPUT_LENGTHS.amount
       THEN TooLong(<<"A", "m", "o", "u", "n", "t">>, Len(amountStr), MAX_INPUT_LENGTHS.amount)
       ELSE IF cleaned = <<>> \/ ToNumber(cleaned).nan
       THEN Throws(NewError(<<"I", "n", "v", "a", "l", "i", "d", " ", "a", "m", "o", "u", "n", "t", ":", " ", "\"">> \o ToStr(amount) \o <<"\"", ".", " ", "U", "s", "e", " ", "a", " ", "n", "u", "m", "b", "e", "r", " ", "l", "i", "k", "e", " ", "\"", "1", "0", "0", "\"", " ", "o", "r", " ", "\"", "1", "0", "0", ".", "5", "0", "\"">>))
       ELSE IF ~parsedAmount.ok THEN parsedAmount
       ELSE IF parsedAmount.value < 50000
       THEN Throws(NewError(<<"A", "m", "o", "u", "n", "t", " ", "m", "u", "s", "t", " ", "b", "e", " ", "a", "t", " ", "l", "e", "a", "s", "t", " ", "$", "0", ".", "0", "5", ".", " ", "G", "o", "t", ":", " ", "$">> \o cleaned))
       ELSE parsedAmount

UnitSeconds == ("s" :> 1) @@ ("m" :> 60) @@ ("h" :> 3600) @@ ("d" :> 86400)

parseDeadline(deadline) ==
    IF deadline.type = "string" /\ Len(deadline.str) > MAX_INPUT_LENGTHS.deadline
    THEN TooLong(<<"D", "e", "a", "d", "l", "i", "n", "e">>, Len(deadline.str), MAX_INPUT_LENGTHS.deadline)
    ELSE IF deadline.type = "number"
    THEN (IF deadline.num < 1000000000 THEN Ok(NowSeconds + deadline.num * 3600) ELSE Ok(deadline.num))
    ELSE LET deadlineStr == trim(deadline.str)
             digits == SubSeq(deadlineStr, 2, Len(deadlineStr) - 1)
             unit == toLowerCase(deadlineStr)[Len(deadlineStr)]
             \* /^\+(\d+)(h|d|m)$/i
             relativeMatch == Len(deadlineStr) >= 3 /\ Head(deadlineStr) = "+" /\ AllIn(digits, Digits) /\ unit \in {"h", "d", "m"}
             \* !isNaN(asNumber) && asNumber > 1000000000 ? Math.floor(asNumber) : throw
             Timestamp(asNumber, otherwise) ==
                IF /\ ~asNumber.nan
                   /\ ~asNumber.neg
                   /\ asNumber.int > 1000000000 \/ (asNumber.int = 1000000000 /\ ~AllIn(asNumber.frac, {"0"}))
                THEN Ok(floor(asNumber))
                ELSE otherwise
             \* !isNaN(parsed) ? Math.floor(parsed / 1000) : the next form
             IsoDate(parsed, otherwise) == IF ~parsed.nan THEN Ok(parsed.seconds) ELSE otherwise
         IN IF relativeMatch THEN Ok(NowSeconds + parseInt(digits, 10) * UnitSeconds[unit])
            ELSE IsoDate(DateParse(deadlineStr), Timestamp(ToNumber(deadlineStr),
                Throws(NewError(<<"I", "n", "v", "a", "l", "i", "d", " ", "d", "e", "a", "d", "l", "i", "n", "e", ":", " ", "\"">> \o deadline.str \o <<"\"", ".", " ", "U", "s", "e", " ", "h", "o", "u", "r", "s", " ", "(", "2", "4", ")", ",", " ", "r", "e", "l", "a", "t", "i", "v", "e", " ", "t", "i", "m", "e", " ", "(", "+", "2", "4", "h", ",", " ", "+", "7", "d", ")", ",", " ", "I", "S", "O", " ", "d", "a", "t", "e", ",", " ", "o", "r", " ", "U", "n", "i", "x", " ", "t", "i", "m", "e", "s", "t", "a", "m", "p", ".">>))))

parseDisputeWindow(window) ==
    IF window.type = "string" /\ Len(window.str) > MAX_INPUT_LENGTHS.disputeWindow
    THEN TooLong(<<"D", "i", "s", "p", "u", "t", "e", " ", "w", "i", "n", "d", "o", "w">>, Len(window.str), MAX_INPUT_LENGTHS.disputeWindow)
    ELSE IF window.type = "number" THEN Ok(window.num)
    ELSE LET windowStr == toLowerCase(trim(window.str))
             digits == SubSeq(windowStr, 1, Len(windowStr) - 1)
             \* /^(\d+)(s|m|h|d)$/
             match == Len(windowStr) >= 2 /\ AllIn(digits, Digits) /\ windowStr[Len(windowStr)] \in {"s", "m", "h", "d"}
             \* !isNaN(asNumber) ? Math.floor(asNumber) : throw
             Seconds(asNumber, otherwise) == IF ~asNumber.nan THEN Ok(floor(asNumber)) ELSE otherwise
         IN IF match THEN Ok(parseInt(digits, 10) * UnitSeconds[windowStr[Len(windowStr)]])
            ELSE Seconds(ToNumber(windowStr),
                Throws(NewError(<<"I", "n", "v", "a", "l", "i", "d", " ", "d", "i", "s", "p", "u", "t", "e", " ", "w", "i", "n", "d", "o", "w", ":", " ", "\"">> \o window.str \o <<"\"", ".", " ", "U", "s", "e", " ", "s", "e", "c", "o", "n", "d", "s", " ", "(", "3", "6", "0", "0", ")", ",", " ", "o", "r", " ", "t", "i", "m", "e", " ", "f", "o", "r", "m", "a", "t", " ", "(", "1", "h", ",", " ", "2", "d", ",", " ", "3", "0", "m", ")", ".">>)))

\* parseAddress with the length check after trim()
parseAddress_TrimFirst(address, fieldName) ==
    LET cleaned == trim(address) IN
    IF Len(cleaned) > MAX_INPUT_LENGTHS.address
    THEN TooLong(fieldName, Len(cleaned), MAX_INPUT_LENGTHS.address)
    ELSE IF cleaned = <<>> THEN Throws(NewError(fieldName \o <<" ", "i", "s", " ", "r", "e", "q", "u", "i", "r", "e", "d">>))
    ELSE IF ~isAddress(cleaned) THEN Throws(NewError(fieldName \o <<" ", "i", "s", " ", "n", "o", "t", " ", "a", " ", "v", "a", "l", "i", "d", " ", "E", "t", "h", "e", "r", "e", "u", "m", " ", "a", "d", "d", "r", "e", "s", "s", ":", " ", "\"">> \o cleaned \o <<"\"">>))
    ELSE IF isZeroAddress(cleaned) THEN Throws(NewError(fieldName \o <<" ", "c", "a", "n", "n", "o", "t", " ", "b", "e", " ", "t", "h", "e", " ", "z", "e", "r", "o", " ", "a", "d", "d", "r", "e", "s", "s", " ", "(", "0", "x", "0", "0", "0", "0", ".", ".", ".", "0", "0", "0", "0", ")">>))
    ELSE Ok(cleaned)

parseAddress(address, fieldName) ==
    LET cleaned == trim(address) IN
    IF Len(address) > MAX_INPUT_LENGTHS.address
    THEN TooLong(fieldName, Len(address), MAX_INPUT_LENGTHS.address)
    ELSE IF cleaned = <<>> THEN Throws(NewError(fieldName \o <<" ", "i", "s", " ", "r", "e", "q", "u", "i", "r", "e", "d">>))
    ELSE IF ~isAddress(cleaned) THEN Throws(NewError(fieldName \o <<" ", "i", "s", " ", "n", "o", "t", " ", "a", " ", "v", "a", "l", "i", "d", " ", "E", "t", "h", "e", "r", "e", "u", "m", " ", "a", "d", "d", "r", "e", "s", "s", ":", " ", "\"">> \o cleaned \o <<"\"">>))
    ELSE IF isZeroAddress(cleaned) THEN Throws(NewError(fieldName \o <<" ", "c", "a", "n", "n", "o", "t", " ", "b", "e", " ", "t", "h", "e", " ", "z", "e", "r", "o", " ", "a", "d", "d", "r", "e", "s", "s", " ", "(", "0", "x", "0", "0", "0", "0", ".", ".", ".", "0", "0", "0", "0", ")">>))
    ELSE Ok(cleaned)

parseTransactionId(txId) ==
    LET cleaned == trim(txId) IN
    IF Len(txId) > MAX_INPUT_LENGTHS.transactionId
    THEN TooLong(<<"T", "r", "a", "n", "s", "a", "c", "t", "i", "o", "n", " ", "I", "D">>, Len(txId), MAX_INPUT_LENGTHS.transactionId)
    ELSE IF cleaned = <<>> THEN Throws(NewError(<<"T", "r", "a", "n", "s", "a", "c", "t", "i", "o", "n", " ", "I", "D", " ", "i", "s", " ", "r", "e", "q", "u", "i", "r", "e", "d">>))
    ELSE IF ~IsPrefixedHex64(cleaned)
    THEN Throws(NewError(<<"I", "n", "v", "a", "l", "i", "d", " ", "t", "r", "a", "n", "s", "a", "c", "t", "i", "o", "n", " ", "I", "D", ":", " ", "\"">> \o cleaned \o <<"\"", ".", " ", "M", "u", "s", "t", " ", "b", "e", " ", "a", " ", "6", "6", "-", "c", "h", "a", "r", "a", "c", "t", "e", "r", " ", "h", "e", "x", " ", "s", "t", "r", "i", "n", "g", " ", "(", "0", "x", " ", "+", " ", "6", "4", " ", "h", "e", "x", " ", "c", "h", "a", "r", "s", ")", ".">>))
    ELSE Ok(toLowerCase(cleaned))

\* the own properties of the stateMap literal
stateMap ==
    (<<"i", "n", "i", "t", "i", "a", "t", "e", "d">> :> 0) @@ (<<"q", "u", "o", "t", "e", "d">> :> 1) @@ (<<"c", "o", "m", "m", "i", "t", "t", "e", "d">> :> 2) @@ (<<"i", "n", "_", "p", "r", "o", "g", "r", "e", "s", "s">> :> 3) @@ (<<"i", "n", "p", "r", "o", "g", "r", "e", "s", "s">> :> 3)
    @@ (<<"d", "e", "l", "i", "v", "e", "r", "e", "d">> :> 4) @@ (<<"s", "e", "t", "t", "l", "e", "d">> :> 5) @@ (<<"d", "i", "s", "p", "u", "t", "e", "d">> :> 6) @@ (<<"c", "a", "n", "c", "e", "l", "l", "e", "d">> :> 7) @@ (<<"c", "a", "n", "c", "e", "l", "e", "d">> :> 7)

\* the properties every object literal inherits from Object.prototype
ObjectPrototype ==
    {<<"c", "o", "n", "s", "t", "r", "u", "c", "t", "o", "r">>, <<"_", "_", "p", "r", "o", "t", "o", "_", "_">>, <<"h", "a", "s", "O", "w", "n", "P", "r", "o", "p", "e", "r", "t", "y">>, <<"i", "s", "P", "r", "o", "t", "o", "t", "y", "p", "e", "O", "f">>, <<"p", "r", "o", "p", "e", "r", "t", "y", "I", "s", "E", "n", "u", "m", "e", "r", "a", "b", "l", "e">>, <<"t", "o", "L", "o", "c", "a", "l", "e", "S", "t", "r", "i", "n", "g">>,
     <<"t", "o", "S", "t", "r", "i", "n", "g">>, <<"v", "a", "l", "u", "e", "O", "f">>, <<"_", "_", "d", "e", "f", "i", "n", "e", "G", "e", "t", "t", "e", "r", "_", "_">>, <<"_", "_", "d", "e", "f", "i", "n", "e", "S", "e", "t", "t", "e", "r", "_", "_">>, <<"_", "_", "l", "o", "o", "k", "u", "p", "G", "e", "t", "t", "e", "r", "_", "_">>, <<"_", "_", "l", "o", "o", "k", "u", "p", "S", "e", "t", "t", "e", "r", "_", "_">>}

\* stateMap[normalized] looks the key up on the literal and then on its
\* prototype; the value is thrown on only when it is undefined
parseState(state) ==
    LET normalized == SelectSeq(toLowerCase(state), LAMBDA c : c \in { LowerOf[u] : u \in DOMAIN LowerOf } \cup {"_"})
    IN IF normalized \in DOMAIN stateMap THEN Ok(Num(stateMap[normalized]))
       ELSE IF normalized \in ObjectPrototype
       THEN Ok([type |-> IF normalized = <<"_", "_", "p", "r", "o", "t", "o", "_", "_">> THEN "object" ELSE "function", str |-> normalized, num |-> 0])
       ELSE Throws(NewError(<<"I", "n", "v", "a", "l", "i", "d", " ", "s", "t", "a", "t", "e", ":", " ", "\"">> \o state \o <<"\"", ".", " ", "V", "a", "l", "i", "d", " ", "s", "t", "a", "t", "e", "s", ":", " ", "I", "N", "I", "T", "I", "A", "T", "E", "D", ",", " ", "Q", "U", "O", "T", "E", "D", ",", " ", "C", "O", "M", "M", "I", "T", "T", "E", "D", ",", " ", "I", "N", "_", "P", "R", "O", "G", "R", "E", "S", "S", ",", " ", "D", "E", "L", "I", "V", "E", "R", "E", "D", ",", " ", "S", "E", "T", "T", "L", "E", "D", ",", " ", "D", "I", "S", "P", "U", "T", "E", "D", ",", " ", "C", "A", "N", "C", "E", "L", "L", "E", "D", ".">>))
(***************************************************************************)
(* secrets.ts: redaction of secrets in text                                *)
(***************************************************************************)
UpperLetters == DOMAIN LowerOf

LowerLetters == { LowerOf[c] : c \in UpperLetters }

AlphaNum == UpperLetters \cup LowerLetters \cup Digits

\* [a-z\s] under the i flag
PhraseChars == UpperLetters \cup LowerLetters \cup WhiteSpace

\* \b between the characters i - 1 and i
WordBoundary(s, i) ==
    LET IsWordAt(j) == j \in 1..Len(s) /\ s[j] \in AlphaNum \cup {"_"} IN
    IsWordAt(i - 1) # IsWordAt(i)

\* the number of consecutive characters of the class from position i on
RunLength(s, i, class) ==
    IF \A j \in i..Len(s) : s[j] \in class THEN (IF i > Len(s) THEN 0 ELSE Len(s) + 1 - i)
    ELSE (CHOOSE j \in i..Len(s) : s[j] \notin class /\ \A k \in i..(j - 1) : s[k] \in class) - i

\* does the literal p start at position i of s?
StartsAt(s, i, p) == i >= 1 /\ i + Len(p) - 1 <= Len(s) /\ \A k \in 1..Len(p) : s[i + k - 1] = p[k]

\* s with the matches replaced from position `from` on; matches[i] is the
\* length of the match that starts at i and the text that replaces it
RECURSIVE Splice(_, _, _)
Splice(s, from, matches) ==
    LET Next(i) == SubSeq(s, from, i - 1) \o matches[i].text \o Splice(s, i + matches[i].length, matches)
        From(rest) == IF rest = {} THEN SubSeq(s, from, Len(s)) ELSE Next(CHOOSE h \in rest : \A g \in rest : h <= g)
    IN From({ i \in DOMAIN matches : i >= from })

PrefixedKeyAt_Address(s, i) ==
    IF StartsAt(s, i, <<"0", "x">>) /\ RunLength(s, i + 2, HexDigits) >= 40 /\ WordBoundary(s, i + 42) THEN 42 ELSE 0

\* /0x[0-9a-fA-F]{64}\b/
PrefixedKeyAt(s, i) ==
    IF StartsAt(s, i, <<"0", "x">>) /\ RunLength(s, i + 2, HexDigits) >= 64 /\ WordBoundary(s, i + 66) THEN 66 ELSE 0

\* /\b[0-9a-fA-F]{64}\b/
BareKeyAt(s, i) ==
    IF WordBoundary(s, i) /\ RunLength(s, i, HexDigits) >= 64 /\ WordBoundary(s, i + 64) THEN 64 ELSE 0

\* /prefix[class]{min,max}/ for a prefix among the given ones; max = 0
\* stands for no upper limit
TokenAt(s, i, prefixes, class, min, max) ==
    LET Token(n, run) == IF run < min THEN 0 ELSE n + (IF max > 0 /\ run > max THEN max ELSE run)
        After(n) == Token(n, RunLength(s, i + n, class))
        Prefixed(prefix) == IF prefix = {} THEN 0 ELSE After(Len(CHOOSE p \in prefix : TRUE))
    IN Prefixed({ p \in prefixes : StartsAt(s, i, p) })

\* input.trim().split(/\s+/).filter((w) => w.length > 0): the maximal runs
\* of characters other than white space, in their order
Words(s) ==
    LET Word(i) == SubSeq(s, i, i + RunLength(s, i, { s[j] : j \in 1..Len(s) } \ WhiteSpace) - 1)
        InOrder(starts) ==
            [k \in 1..Cardinality(starts) |-> Word(CHOOSE h \in starts : Cardinality({ j \in starts : j <= h }) = k)]
    IN InOrder({ i \in 1..Len(s) : s[i] \notin WhiteSpace /\ (i = 1 \/ s[i - 1] \in WhiteSpace) })

BIP39_COMMON_WORDS ==
    {
      <<"a", "b", "a", "n", "d", "o", "n">>, <<"a", "b", "i", "l", "i", "t", "y">>, <<"a", "b", "l", "e">>, <<"a", "b", "o", "u", "t">>, <<"a", "b", "o", "v", "e">>, <<"a", "b", "s", "e", "n", "t">>,
      <<"a", "b", "s", "o", "r", "b">>, <<"a", "b", "s", "t", "r", "a", "c", "t">>, <<"a", "b", "s", "u", "r", "d">>, <<"a", "b", "u", "s", "e">>, <<"a", "c", "c", "e", "s", "s">>, <<"a", "c", "c", "i", "d", "e", "n", "t">>,
      <<"a", "c", "c", "o", "u", "n", "t">>, <<"a", "c", "c", "u", "s", "e">>, <<"a", "c", "h", "i", "e", "v", "e">>, <<"a", "c", "i", "d">>, <<"a", "c", "o", "u", "s", "t", "i", "c">>, <<"a", "c", "q", "u", "i", "r", "e">>,
      <<"a", "c", "r", "o", "s", "s">>, <<"a", "c", "t">>, <<"a", "c", "t", "i", "o", "n">>, <<"a", "c", "t", "o", "r">>, <<"a", "c", "t", "r", "e", "s", "s">>, <<"a", "c", "t", "u", "a", "l">>,
      <<"a", "d", "a", "p", "t">>, <<"a", "d", "d">>, <<"a", "d", "d", "i", "c", "t">>, <<"a", "d", "d", "r", "e", "s", "s">>, <<"a", "d", "j", "u", "s", "t">>, <<"a", "d", "m", "i", "t">>,
      <<"a", "d", "u", "l", "t">>, <<"a", "d", "v", "a", "n", "c", "e">>, <<"a", "d", "v", "i", "c", "e">>, <<"a", "e", "r", "o", "b", "i", "c">>, <<"a", "f", "f", "a", "i", "r">>, <<"a", "f", "f", "o", "r", "d">>,
      <<"a", "f", "r", "a", "i", "d">>, <<"a", "g", "a", "i", "n">>, <<"a", "g", "e">>, <<"a", "g", "e", "n", "t">>, <<"a", "g", "r", "e", "e">>, <<"a", "h", "e", "a", "d">>,
      <<"a", "i", "m">>, <<"a", "i", "r">>, <<"a", "i", "r", "p", "o", "r", "t">>, <<"a", "i", "s", "l", "e">>, <<"a", "l", "a", "r", "m">>, <<"a", "l", "b", "u", "m">>,
      <<"a", "l", "c", "o", "h", "o", "l">>, <<"a", "l", "e", "r", "t">>, <<"a", "l", "i", "e", "n">>, <<"a", "l", "l">>, <<"a", "l", "l", "e", "y">>, <<"a", "l", "l", "o", "w">>,
      <<"a", "l", "m", "o", "s", "t">>, <<"a", "l", "o", "n", "e">>, <<"a", "l", "p", "h", "a">>, <<"a", "l", "r", "e", "a", "d", "y">>, <<"a", "l", "s", "o">>, <<"a", "l", "t", "e", "r">>,
      <<"a", "l", "w", "a", "y", "s">>, <<"a", "m", "a", "t", "e", "u", "r">>, <<"a", "m", "a", "z", "i", "n", "g">>, <<"a", "m", "o", "n", "g">>, <<"a", "m", "o", "u", "n", "t">>, <<"a", "m", "u", "s", "e", "d">>,
      <<"a", "n", "a", "l", "y", "s", "t">>, <<"a", "n", "c", "h", "o", "r">>, <<"a", "n", "c", "i", "e", "n", "t">>, <<"a", "n", "g", "e", "r">>, <<"a", "n", "g", "l", "e">>, <<"a", "n", "g", "r", "y">>,
      <<"a", "n", "i", "m", "a", "l">>, <<"a", "n", "k", "l", "e">>, <<"a", "n", "n", "o", "u", "n", "c", "e">>, <<"a", "n", "n", "u", "a", "l">>, <<"a", "n", "o", "t", "h", "e", "r">>, <<"a", "n", "s", "w", "e", "r">>,
      <<"a", "n", "t", "e", "n", "n", "a">>, <<"a", "n", "t", "i", "q", "u", "e">>, <<"a", "n", "x", "i", "e", "t", "y">>, <<"a", "n", "y">>, <<"a", "p", "a", "r", "t">>, <<"a", "p", "o", "l", "o", "g", "y">>,
      <<"a", "p", "p", "e", "a", "r">>, <<"a", "p", "p", "l", "e">>, <<"a", "p", "p", "r", "o", "v", "e">>, <<"a", "p", "r", "i", "l">>, <<"a", "r", "c", "h">>, <<"a", "r", "c", "t", "i", "c">>,
      <<"a", "r", "e", "a">>, <<"a", "r", "e", "n", "a">>, <<"a", "r", "g", "u", "e">>, <<"a", "r", "m">>, <<"a", "r", "m", "e", "d">>, <<"a", "r", "m", "o", "r">>,
      <<"a", "r", "m", "y">>, <<"a", "r", "o", "u", "n", "d">>, <<"a", "r", "r", "a", "n", "g", "e">>, <<"a", "r", "r", "e", "s", "t">>, <<"b", "a", "s", "i", "c">>, <<"b", "e", "c", "a", "u", "s", "e">>,
      <<"b", "e", "c", "o", "m", "e">>, <<"b", "e", "e", "f">>, <<"b", "e", "f", "o", "r", "e">>, <<"b", "e", "g", "i", "n">>, <<"b", "e", "h", "i", "n", "d">>, <<"b", "e", "l", "i", "e", "v", "e">>,
      <<"b", "e", "l", "o", "w">>, <<"b", "e", "l", "t">>, <<"b", "e", "n", "c", "h">>, <<"b", "e", "n", "e", "f", "i", "t">>, <<"b", "e", "s", "t">>, <<"b", "e", "t", "r", "a", "y">>,
      <<"b", "e", "t", "t", "e", "r">>, <<"b", "e", "t", "w", "e", "e", "n">>, <<"b", "e", "y", "o", "n", "d">>, <<"b", "i", "c", "y", "c", "l", "e">>, <<"b", "i", "d">>, <<"b", "i", "k", "e">>,
      <<"b", "i", "o", "l", "o", "g", "y">>, <<"b", "i", "r", "d">>, <<"b", "i", "r", "t", "h">>, <<"b", "i", "t", "t", "e", "r">>, <<"b", "l", "a", "c", "k">>, <<"b", "l", "a", "d", "e">>,
      <<"b", "l", "a", "m", "e">>, <<"b", "l", "a", "n", "k", "e", "t">>, <<"b", "l", "a", "s", "t">>, <<"b", "l", "e", "a", "k">>, <<"b", "l", "i", "n", "d">>, <<"b", "l", "o", "o", "d">>,
      <<"b", "l", "o", "s", "s", "o", "m">>, <<"b", "l", "o", "u", "s", "e">>, <<"b", "l", "u", "e">>, <<"b", "l", "u", "r">>, <<"b", "l", "u", "s", "h">>, <<"b", "o", "a", "r", "d">>,
      <<"b", "o", "a", "t">>, <<"b", "o", "d", "y">>, <<"b", "r", "a", "i", "n">>, <<"b", "r", "a", "n", "d">>, <<"b", "r", "a", "s", "s">>, <<"b", "r", "a", "v", "e">>,
      <<"b", "r", "e", "a", "d">>, <<"b", "r", "e", "e", "z", "e">>, <<"b", "r", "i", "c", "k">>, <<"b", "r", "i", "d", "g", "e">>, <<"b", "r", "i", "e", "f">>, <<"b", "r", "i", "g", "h", "t">>,
      <<"b", "r", "i", "n", "g">>, <<"b", "r", "i", "s", "k">>, <<"b", "r", "o", "c", "c", "o", "l", "i">>, <<"b", "r", "o", "k", "e", "n">>, <<"b", "r", "o", "n", "z", "e">>, <<"b", "r", "o", "o", "m">>,
      <<"b", "r", "o", "t", "h", "e", "r">>, <<"b", "r", "o", "w", "n">>, <<"b", "r", "u", "s", "h">>, <<"b", "u", "b", "b", "l", "e">>, <<"c", "a", "l", "l">>, <<"c", "a", "l", "m">>,
      <<"c", "a", "m", "e", "r", "a">>, <<"c", "a", "m", "p">>, <<"c", "a", "n">>, <<"c", "a", "n", "a", "l">>, <<"c", "a", "n", "c", "e", "l">>, <<"c", "a", "n", "d", "y">>,
      <<"c", "a", "n", "n", "o", "n">>, <<"c", "a", "n", "o", "e">>, <<"c", "a", "n", "v", "a", "s">>, <<"c", "a", "n", "y", "o", "n">>, <<"c", "a", "p", "a", "b", "l", "e">>, <<"c", "a", "p", "i", "t", "a", "l">>,
      <<"c", "a", "p", "t", "a", "i", "n">>, <<"c", "a", "r">>, <<"c", "a", "r", "b", "o", "n">>, <<"c", "a", "r", "d">>, <<"c", "a", "r", "g", "o">>, <<"c", "a", "r", "p", "e", "t">>,
      <<"c", "a", "s", "e">>, <<"c", "a", "s", "h">>, <<"c", "a", "s", "i", "n", "o">>, <<"c", "a", "s", "t", "l", "e">>, <<"c", "a", "s", "u", "a", "l">>, <<"c", "a", "t">>,
      <<"c", "a", "t", "a", "l", "o", "g">>, <<"c", "a", "t", "c", "h">>, <<"c", "a", "t", "e", "g", "o", "r", "y">>, <<"c", "a", "t", "t", "l", "e">>, <<"c", "a", "u", "g", "h", "t">>, <<"c", "a", "u", "s", "e">>,
      <<"c", "a", "u", "t", "i", "o", "n">>, <<"c", "a", "v", "e">>, <<"c", "e", "i", "l", "i", "n", "g">>, <<"c", "e", "l", "e", "r", "y">>, <<"c", "e", "m", "e", "n", "t">>, <<"c", "e", "n", "s", "u", "s">>,
      <<"c", "e", "n", "t", "u", "r", "y">>, <<"c", "e", "r", "e", "a", "l">>, <<"d", "a", "y">>, <<"d", "e", "a", "l">>, <<"d", "e", "b", "a", "t", "e">>, <<"d", "e", "b", "r", "i", "s">>,
      <<"d", "e", "c", "a", "d", "e">>, <<"d", "e", "c", "e", "m", "b", "e", "r">>, <<"d", "e", "c", "i", "d", "e">>, <<"d", "e", "c", "l", "i", "n", "e">>, <<"d", "e", "c", "o", "r", "a", "t", "e">>, <<"d", "e", "c", "r", "e", "a", "s", "e">>,
      <<"d", "e", "e", "r">>, <<"d", "e", "f", "e", "n", "s", "e">>, <<"d", "e", "f", "i", "n", "e">>, <<"d", "e", "f", "y">>, <<"d", "e", "g", "r", "e", "e">>, <<"d", "e", "l", "a", "y">>,
      <<"d", "e", "l", "i", "v", "e", "r">>, <<"d", "e", "m", "a", "n", "d">>, <<"d", "e", "m", "i", "s", "e">>, <<"d", "e", "n", "i", "a", "l">>, <<"d", "o", "c", "t", "o", "r">>, <<"d", "o", "c", "u", "m", "e", "n", "t">>,
      <<"d", "o", "g">>, <<"d", "o", "l", "l">>, <<"d", "o", "l", "p", "h", "i", "n">>, <<"d", "o", "m", "a", "i", "n">>, <<"d", "o", "n", "a", "t", "e">>, <<"d", "o", "n", "k", "e", "y">>,
      <<"d", "o", "n", "o", "r">>, <<"d", "o", "o", "r">>, <<"d", "o", "s", "e">>, <<"d", "o", "u", "b", "l", "e">>, <<"d", "o", "v", "e">>, <<"d", "r", "a", "f", "t">>,
      <<"d", "r", "a", "g", "o", "n">>, <<"d", "r", "a", "m", "a">>, <<"d", "r", "a", "s", "t", "i", "c">>, <<"d", "r", "a", "w">>, <<"d", "r", "e", "a", "m">>, <<"d", "r", "e", "s", "s">>,
      <<"e", "a", "r", "l", "y">>, <<"e", "a", "r", "n">>, <<"e", "a", "r", "t", "h">>, <<"e", "a", "s", "i", "l", "y">>, <<"e", "a", "s", "t">>, <<"e", "a", "s", "y">>,
      <<"e", "c", "h", "o">>, <<"e", "c", "o", "l", "o", "g", "y">>, <<"e", "c", "o", "n", "o", "m", "y">>, <<"e", "d", "g", "e">>, <<"e", "d", "i", "t">>, <<"e", "d", "u", "c", "a", "t", "e">>,
      <<"e", "f", "f", "o", "r", "t">>, <<"e", "g", "g">>, <<"e", "i", "g", "h", "t">>, <<"e", "i", "t", "h", "e", "r">>, <<"e", "l", "b", "o", "w">>, <<"e", "l", "d", "e", "r">>,
      <<"e", "l", "e", "c", "t", "r", "i", "c">>, <<"e", "l", "e", "g", "a", "n", "t">>, <<"e", "l", "e", "m", "e", "n", "t">>, <<"e", "l", "e", "p", "h", "a", "n", "t">>, <<"e", "l", "e", "v", "a", "t", "o", "r">>, <<"e", "l", "i", "t", "e">>,
      <<"e", "l", "s", "e">>, <<"e", "m", "b", "a", "r", "k">>, <<"e", "m", "b", "o", "d", "y">>, <<"e", "m", "b", "r", "a", "c", "e">>, <<"e", "m", "e", "r", "g", "e">>, <<"e", "m", "o", "t", "i", "o", "n">>,
      <<"f", "a", "c", "u", "l", "t", "y">>, <<"f", "a", "d", "e">>, <<"f", "a", "i", "n", "t">>, <<"f", "a", "i", "t", "h">>, <<"f", "a", "l", "l">>, <<"f", "a", "l", "s", "e">>,
      <<"f", "a", "m", "e">>, <<"f", "a", "m", "i", "l", "y">>, <<"f", "a", "m", "o", "u", "s">>, <<"f", "a", "n">>, <<"f", "a", "n", "c", "y">>, <<"f", "a", "n", "t", "a", "s", "y">>,
      <<"f", "a", "r", "m">>, <<"f", "a", "s", "h", "i", "o", "n">>, <<"f", "a", "t">>, <<"f", "a", "t", "a", "l">>, <<"f", "a", "t", "h", "e", "r">>, <<"f", "a", "t", "i", "g", "u", "e">>,
      <<"f", "a", "u", "l", "t">>, <<"f", "a", "v", "o", "r", "i", "t", "e">>, <<"f", "e", "a", "t", "u", "r", "e">>, <<"f", "e", "b", "r", "u", "a", "r", "y">>, <<"f", "e", "d", "e", "r", "a", "l">>, <<"f", "e", "e">>,
      <<"f", "e", "e", "d">>, <<"f", "e", "e", "l">>, <<"f", "e", "m", "a", "l", "e">>, <<"f", "e", "n", "c", "e">>, <<"f", "e", "s", "t", "i", "v", "a", "l">>, <<"f", "e", "t", "c", "h">>,
      <<"g", "a", "m", "e">>, <<"g", "a", "p">>, <<"g", "a", "r", "a", "g", "e">>, <<"g", "a", "r", "b", "a", "g", "e">>, <<"g", "a", "r", "d", "e", "n">>, <<"g", "a", "r", "l", "i", "c">>,
      <<"g", "a", "r", "m", "e", "n", "t">>, <<"g", "a", "s">>, <<"g", "a", "s", "p">>, <<"g", "a", "t", "e">>, <<"g", "a", "t", "h", "e", "r">>, <<"g", "a", "u", "g", "e">>,
      <<"g", "a", "z", "e">>, <<"g", "e", "n", "e", "r", "a", "l">>, <<"g", "e", "n", "i", "u", "s">>, <<"g", "e", "n", "r", "e">>, <<"g", "e", "n", "t", "l", "e">>, <<"g", "e", "n", "u", "i", "n", "e">>,
      <<"g", "e", "s", "t", "u", "r", "e">>, <<"g", "h", "o", "s", "t">>, <<"g", "i", "a", "n", "t">>, <<"g", "i", "f", "t">>, <<"g", "i", "g", "g", "l", "e">>, <<"g", "i", "n", "g", "e", "r">>,
      <<"g", "i", "r", "a", "f", "f", "e">>, <<"g", "i", "r", "l">>, <<"g", "i", "v", "e">>, <<"g", "l", "a", "d">>, <<"g", "l", "a", "n", "c", "e">>, <<"g", "l", "a", "r", "e">>,
      <<"h", "a", "l", "f">>, <<"h", "a", "m", "m", "e", "r">>, <<"h", "a", "m", "s", "t", "e", "r">>, <<"h", "a", "n", "d">>, <<"h", "a", "p", "p", "y">>, <<"h", "a", "r", "b", "o", "r">>,
      <<"h", "a", "r", "d">>, <<"h", "a", "r", "s", "h">>, <<"h", "a", "r", "v", "e", "s", "t">>, <<"h", "a", "t">>, <<"h", "a", "v", "e">>, <<"h", "a", "w", "k">>,
      <<"h", "a", "z", "a", "r", "d">>, <<"h", "e", "a", "d">>, <<"h", "e", "a", "l", "t", "h">>, <<"h", "e", "a", "r", "t">>, <<"h", "e", "a", "v", "y">>, <<"h", "e", "d", "g", "e", "h", "o", "g">>,
      <<"h", "e", "i", "g", "h", "t">>, <<"h", "e", "l", "l", "o">>, <<"h", "e", "l", "m", "e", "t">>, <<"h", "e", "l", "p">>, <<"h", "e", "n">>, <<"h", "e", "r", "o">>,
      <<"h", "i", "d", "d", "e", "n">>, <<"h", "i", "g", "h">>, <<"h", "i", "l", "l">>, <<"h", "i", "n", "t">>, <<"h", "i", "p">>, <<"h", "i", "r", "e">>,
      <<"i", "c", "e">>, <<"i", "c", "o", "n">>, <<"i", "d", "e", "a">>, <<"i", "d", "e", "n", "t", "i", "f", "y">>, <<"i", "d", "l", "e">>, <<"i", "g", "n", "o", "r", "e">>,
      <<"i", "l", "l">>, <<"i", "l", "l", "e", "g", "a", "l">>, <<"i", "l", "l", "n", "e", "s", "s">>, <<"i", "m", "a", "g", "e">>, <<"i", "m", "i", "t", "a", "t", "e">>, <<"i", "m", "m", "e", "n", "s", "e">>,
      <<"i", "m", "m", "u", "n", "e">>, <<"i", "m", "p", "a", "c", "t">>, <<"i", "m", "p", "o", "s", "e">>, <<"i", "m", "p", "r", "o", "v", "e">>, <<"i", "m", "p", "u", "l", "s", "e">>, <<"i", "n", "c", "h">>,
      <<"i", "n", "c", "l", "u", "d", "e">>, <<"i", "n", "c", "o", "m", "e">>, <<"j", "u", "n", "i", "o", "r">>, <<"j", "u", "n", "k">>, <<"j", "u", "s", "t">>, <<"k", "a", "n", "g", "a", "r", "o", "o">>,
      <<"k", "e", "e", "n">>, <<"k", "e", "e", "p">>, <<"k", "e", "t", "c", "h", "u", "p">>, <<"k", "e", "y">>, <<"k", "i", "c", "k">>, <<"k", "i", "d">>,
      <<"k", "i", "d", "n", "e", "y">>, <<"k", "i", "n", "d">>, <<"k", "i", "n", "g", "d", "o", "m">>, <<"k", "i", "s", "s">>, <<"k", "i", "t">>, <<"k", "i", "t", "c", "h", "e", "n">>,
      <<"k", "i", "t", "e">>, <<"k", "i", "t", "t", "e", "n">>, <<"k", "i", "w", "i">>, <<"k", "n", "e", "e">>, <<"l", "a", "b">>, <<"l", "a", "b", "e", "l">>,
      <<"l", "a", "b", "o", "r">>, <<"l", "a", "d", "d", "e", "r">>, <<"l", "a", "d", "y">>, <<"l", "a", "k", "e">>, <<"l", "a", "m", "p">>, <<"l", "a", "n", "g", "u", "a", "g", "e">>,
      <<"l", "a", "p", "t", "o", "p">>, <<"l", "a", "r", "g", "e">>, <<"l", "a", "t", "e", "r">>, <<"l", "a", "t", "i", "n">>, <<"l", "a", "u", "g", "h">>, <<"l", "a", "u", "n", "d", "r", "y">>,
      <<"l", "a", "v", "a">>, <<"l", "a", "w">>, <<"l", "a", "w", "n">>, <<"l", "a", "w", "s", "u", "i", "t">>, <<"l", "a", "y", "e", "r">>, <<"l", "a", "z", "y">>,
      <<"m", "a", "k", "e">>, <<"m", "a", "m", "m", "a", "l">>, <<"m", "a", "n">>, <<"m", "a", "n", "a", "g", "e">>, <<"m", "a", "n", "d", "a", "t", "e">>, <<"m", "a", "n", "g", "o">>,
      <<"m", "a", "n", "s", "i", "o", "n">>, <<"m", "a", "n", "u", "a", "l">>, <<"m", "a", "p", "l", "e">>, <<"m", "a", "r", "b", "l", "e">>, <<"m", "a", "r", "c", "h">>, <<"m", "a", "r", "g", "i", "n">>,
      <<"m", "a", "r", "i", "n", "e">>, <<"m", "a", "r", "k", "e", "t">>, <<"m", "a", "r", "r", "i", "a", "g", "e">>, <<"m", "a", "s", "k">>, <<"m", "a", "s", "s">>, <<"m", "a", "s", "t", "e", "r">>,
      <<"m", "a", "t", "c", "h">>, <<"m", "a", "t", "e", "r", "i", "a", "l">>, <<"m", "a", "t", "h">>, <<"m", "a", "t", "r", "i", "x">>, <<"m", "a", "t", "t", "e", "r">>, <<"m", "a", "x", "i", "m", "u", "m">>,
      <<"m", "a", "z", "e">>, <<"m", "e", "a", "d", "o", "w">>, <<"m", "e", "a", "n">>, <<"m", "e", "a", "s", "u", "r", "e">>, <<"m", "e", "a", "t">>, <<"m", "e", "c", "h", "a", "n", "i", "c">>,
      <<"n", "a", "m", "e">>, <<"n", "a", "p", "k", "i", "n">>, <<"n", "a", "r", "r", "o", "w">>, <<"n", "a", "s", "t", "y">>, <<"n", "a", "t", "i", "o", "n">>, <<"n", "a", "t", "u", "r", "e">>,
      <<"n", "e", "a", "r">>, <<"n", "e", "c", "k">>, <<"n", "e", "e", "d">>, <<"n", "e", "g", "a", "t", "i", "v", "e">>, <<"n", "e", "g", "l", "e", "c", "t">>, <<"n", "e", "i", "t", "h", "e", "r">>,
      <<"n", "e", "p", "h", "e", "w">>, <<"n", "e", "r", "v", "e">>, <<"n", "e", "s", "t">>, <<"n", "e", "t">>, <<"n", "e", "t", "w", "o", "r", "k">>, <<"n", "e", "u", "t", "r", "a", "l">>,
      <<"n", "e", "v", "e", "r">>, <<"n", "e", "w", "s">>, <<"o", "c", "e", "a", "n">>, <<"o", "c", "t", "o", "b", "e", "r">>, <<"o", "d", "o", "r">>, <<"o", "f", "f">>,
      <<"o", "f", "f", "e", "r">>, <<"o", "f", "f", "i", "c", "e">>, <<"o", "f", "t", "e", "n">>, <<"o", "i", "l">>, <<"o", "k", "a", "y">>, <<"o", "l", "d">>,
      <<"o", "l", "i", "v", "e">>, <<"o", "l", "y", "m", "p", "i", "c">>, <<"o", "m", "i", "t">>, <<"o", "n", "c", "e">>, <<"o", "n", "e">>, <<"o", "n", "i", "o", "n">>,
      <<"o", "n", "l", "i", "n", "e">>, <<"o", "n", "l", "y">>, <<"o", "p", "e", "n">>, <<"o", "p", "e", "r", "a">>, <<"p", "a", "l", "a", "c", "e">>, <<"p", "a", "l", "m">>,
      <<"p", "a", "n", "d", "a">>, <<"p", "a", "n", "e", "l">>, <<"p", "a", "n", "i", "c">>, <<"p", "a", "n", "t", "h", "e", "r">>, <<"p", "a", "p", "e", "r">>, <<"p", "a", "r", "a", "d", "e">>,
      <<"p", "a", "r", "e", "n", "t">>, <<"p", "a", "r", "k">>, <<"p", "a", "r", "r", "o", "t">>, <<"p", "a", "r", "t", "y">>, <<"p", "a", "s", "s">>, <<"p", "a", "t", "c", "h">>,
      <<"p", "a", "t", "h">>, <<"p", "a", "t", "i", "e", "n", "t">>, <<"p", "a", "t", "r", "o", "l">>, <<"p", "a", "t", "t", "e", "r", "n">>, <<"p", "a", "u", "s", "e">>, <<"p", "a", "v", "e">>,
      <<"q", "u", "a", "l", "i", "t", "y">>, <<"q", "u", "a", "n", "t", "u", "m">>, <<"q", "u", "a", "r", "t", "e", "r">>, <<"q", "u", "e", "s", "t", "i", "o", "n">>, <<"q", "u", "i", "c", "k">>, <<"q", "u", "i", "t">>,
      <<"q", "u", "i", "z">>, <<"q", "u", "o", "t", "e">>, <<"r", "a", "b", "b", "i", "t">>, <<"r", "a", "c", "c", "o", "o", "n">>, <<"r", "a", "c", "e">>, <<"r", "a", "c", "k">>,
      <<"r", "a", "d", "a", "r">>, <<"r", "a", "d", "i", "o">>, <<"r", "a", "i", "l">>, <<"r", "a", "i", "n">>, <<"r", "a", "i", "s", "e">>, <<"r", "a", "l", "l", "y">>,
      <<"r", "a", "m", "p">>, <<"r", "a", "n", "c", "h">>, <<"s", "a", "d">>, <<"s", "a", "d", "d", "l", "e">>, <<"s", "a", "d", "n", "e", "s", "s">>, <<"s", "a", "f", "e">>,
      <<"s", "a", "i", "l">>, <<"s", "a", "l", "a", "d">>, <<"s", "a", "l", "m", "o", "n">>, <<"s", "a", "l", "o", "n">>, <<"s", "a", "l", "t">>, <<"s", "a", "l", "u", "t", "e">>,
      <<"s", "a", "m", "e">>, <<"s", "a", "m", "p", "l", "e">>, <<"s", "a", "n", "d">>, <<"s", "a", "t", "i", "s", "f", "y">>, <<"s", "a", "t", "o", "s", "h", "i">>, <<"s", "a", "u", "c", "e">>,
      <<"s", "a", "u", "s", "a", "g", "e">>, <<"s", "a", "v", "e">>, <<"s", "a", "y">>, <<"s", "c", "a", "l", "e">>, <<"t", "a", "b", "l", "e">>, <<"t", "a", "c", "k", "l", "e">>,
      <<"t", "a", "g">>, <<"t", "a", "i", "l">>, <<"t", "a", "l", "e", "n", "t">>, <<"t", "a", "l", "k">>, <<"t", "a", "n", "k">>, <<"t", "a", "p", "e">>,
      <<"t", "a", "r", "g", "e", "t">>, <<"t", "a", "s", "k">>, <<"t", "a", "s", "t", "e">>, <<"t", "a", "t", "t", "o", "o">>, <<"t", "a", "x", "i">>, <<"t", "e", "a", "c", "h">>,
      <<"t", "e", "a", "m">>, <<"t", "e", "l", "l">>, <<"t", "e", "n">>, <<"t", "e", "n", "a", "n", "t">>, <<"t", "e", "n", "n", "i", "s">>, <<"t", "e", "n", "t">>,
      <<"u", "m", "b", "r", "e", "l", "l", "a">>, <<"u", "n", "a", "b", "l", "e">>, <<"u", "n", "a", "w", "a", "r", "e">>, <<"u", "n", "c", "l", "e">>, <<"u", "n", "c", "o", "v", "e", "r">>, <<"u", "n", "d", "e", "r">>,
      <<"u", "n", "d", "o">>, <<"u", "n", "f", "a", "i", "r">>, <<"u", "n", "f", "o", "l", "d">>, <<"u", "n", "h", "a", "p", "p", "y">>, <<"u", "n", "i", "f", "o", "r", "m">>, <<"u", "n", "i", "q", "u", "e">>,
      <<"u", "n", "i", "t">>, <<"u", "n", "i", "v", "e", "r", "s", "e">>, <<"u", "n", "k", "n", "o", "w", "n">>, <<"u", "n", "l", "o", "c", "k">>, <<"u", "n", "t", "i", "l">>, <<"u", "n", "u", "s", "u", "a", "l">>,
      <<"u", "n", "v", "e", "i", "l">>, <<"u", "p", "d", "a", "t", "e">>, <<"v", "a", "c", "u", "u", "m">>, <<"v", "a", "g", "u", "e">>, <<"v", "a", "l", "i", "d">>, <<"v", "a", "l", "l", "e", "y">>,
      <<"v", "a", "l", "v", "e">>, <<"v", "a", "n">>, <<"v", "a", "n", "i", "s", "h">>, <<"v", "a", "p", "o", "r">>, <<"v", "a", "r", "i", "o", "u", "s">>, <<"v", "a", "s", "t">>,
      <<"v", "a", "u", "l", "t">>, <<"v", "e", "h", "i", "c", "l", "e">>, <<"v", "e", "l", "v", "e", "t">>, <<"v", "e", "n", "d", "o", "r">>, <<"v", "e", "n", "t", "u", "r", "e">>, <<"v", "e", "n", "u", "e">>,
      <<"v", "e", "r", "b">>, <<"v", "e", "r", "i", "f", "y">>, <<"v", "e", "r", "s", "i", "o", "n">>, <<"v", "e", "r", "y">>, <<"w", "a", "g", "e">>, <<"w", "a", "g", "o", "n">>,
      <<"w", "a", "i", "t">>, <<"w", "a", "l", "k">>, <<"w", "a", "l", "l">>, <<"w", "a", "l", "n", "u", "t">>, <<"w", "a", "n", "t">>, <<"w", "a", "r", "f", "a", "r", "e">>,
      <<"w", "a", "r", "m">>, <<"w", "a", "r", "r", "i", "o", "r">>, <<"w", "a", "s", "h">>, <<"w", "a", "s", "p">>, <<"w", "a", "s", "t", "e">>, <<"w", "a", "t", "e", "r">>,
      <<"w", "a", "v", "e">>, <<"w", "a", "y">>, <<"w", "e", "a", "l", "t", "h">>, <<"w", "e", "a", "p", "o", "n">>, <<"w", "e", "a", "r">>, <<"w", "e", "a", "s", "e", "l">>,
      <<"y", "e", "a", "r">>, <<"y", "e", "l", "l", "o", "w">>, <<"y", "o", "u">>, <<"y", "o", "u", "n", "g">>, <<"y", "o", "u", "t", "h">>, <<"z", "e", "b", "r", "a">>,
      <<"z", "e", "r", "o">>, <<"z", "o", "n", "e">>, <<"z", "o", "o">>, <<"w", "o", "r", "d">>, <<"w", "o", "r", "r", "y">>, <<"w", "o", "r", "t", "h">>,
      <<"w", "r", "a", "p">>, <<"w", "r", "e", "c", "k">>, <<"w", "r", "e", "s", "t", "l", "e">>, <<"w", "r", "i", "s", "t">>, <<"w", "r", "i", "t", "e">>, <<"w", "r", "o", "n", "g">> }

isMnemonicPhrase(input) ==
    LET Matching(words) == { k \in 1..Len(words) : words[k] \in BIP39_COMMON_WORDS }
        Looks(words) ==
            /\ Len(words) >= 11
            /\ Len(words) <= 24
            \* matchingWords.length / words.length >= 0.8
            /\ 5 * Cardinality(Matching(words)) >= 4 * Len(words)
    IN input # <<>> /\ Looks(Words(toLowerCase(input)))

\* /"([a-z\s]{40,})"/gi and the same between single quotes
QuotedAt(s, i, quote) ==
    LET Closed(run) == IF run >= 40 /\ i + 1 + run <= Len(s) /\ s[i + 1 + run] = quote THEN run + 2 ELSE 0 IN
    IF i <= Len(s) /\ s[i] = quote THEN Closed(RunLength(s, i + 1, PhraseChars)) ELSE 0

\* /keyword[:\s]+([a-z\s]{40,})/gi: the number of separator characters
\* the match takes (the longest run that leaves 40 phrase characters), or 0
SeparatorsAt(s, i, keyword) ==
    LET Longest(fits) == IF fits = {} THEN 0 ELSE CHOOSE k \in fits : \A j \in fits : j <= k
        From(start) ==
            IF start - 1 <= Len(s) /\ toLowerCase(SubSeq(s, i, start - 1)) = keyword
            THEN Longest({ k \in 1..RunLength(s, start, WhiteSpace \cup {":"}) : RunLength(s, start + k, PhraseChars) >= 40 })
            ELSE 0
    IN From(i + Len(keyword))

\* the length of the match at i, k being the separators it takes
LabelledAt(s, i, keyword, k) ==
    IF k = 0 THEN 0 ELSE Len(keyword) + k + RunLength(s, i + Len(keyword) + k, PhraseChars)

\* (match, phrase) => isMnemonicPhrase(phrase) ? match.replace(phrase, '[REDACTED_MNEMONIC]') : match
RedactLabelled(match, phrase) ==
    LET ReplaceAt(at) == SubSeq(match, 1, at - 1) \o <<"[", "R", "E", "D", "A", "C", "T", "E", "D", "_", "M", "N", "E", "M", "O", "N", "I", "C", "]">> \o SubSeq(match, at + Len(phrase), Len(match)) IN
    IF isMnemonicPhrase(phrase) THEN ReplaceAt(IndexOf(match, phrase)) ELSE match

\* a regular expression of redactSecrets or redactMnemonicPhrases: what it
\* starts with, the class and the length of the run that follows
Pattern(type, prefixes, class, min, max) ==
    [type |-> type, prefixes |-> prefixes, class |-> class, min |-> min, max |-> max]

\* the literal a quoted or labelled pattern starts with
Prefix(pattern) == CHOOSE p \in pattern.prefixes : TRUE

\* the length of the match of the pattern that starts at i, or 0
MatchAt(s, i, pattern) ==
    CASE pattern.type = "prefixedKey" -> PrefixedKeyAt(s, i)
      [] pattern.type = "bareKey" -> BareKeyAt(s, i)
      [] pattern.type = "apiKey" -> TokenAt(s, i, pattern.prefixes, pattern.class, pattern.min, pattern.max)
      [] pattern.type = "quoted" -> QuotedAt(s, i, Prefix(pattern)[1])
      [] pattern.type = "labelled" -> LabelledAt(s, i, Prefix(pattern), SeparatorsAt(s, i, Prefix(pattern)))

\* the second argument of String.replace, applied to the match m
Replacement(m, pattern) ==
    CASE pattern.type \in {"prefixedKey", "bareKey"} -> <<"[", "R", "E", "D", "A", "C", "T", "E", "D", "_", "K", "E", "Y", "]">>
      [] pattern.type = "apiKey" -> <<"[", "R", "E", "D", "A", "C", "T", "E", "D", "_", "A", "P", "I", "_", "K", "E", "Y", "]">>
      [] pattern.type = "quoted" -> IF isMnemonicPhrase(SubSeq(m, 2, Len(m) - 1))
                                    THEN Prefix(pattern) \o <<"[", "R", "E", "D", "A", "C", "T", "E", "D", "_", "M", "N", "E", "M", "O", "N", "I", "C", "]">> \o Prefix(pattern)
                                    ELSE m
      [] pattern.type = "labelled" ->
             RedactLabelled(m, SubSeq(m, Len(Prefix(pattern)) + SeparatorsAt(m, 1, Prefix(pattern)) + 1, Len(m)))

\* s.replace(pattern, replacement) with the g flag: matches are taken
\* leftmost first and do not overlap
ReplaceAll(s, pattern) ==
    Splice(s, 1, [i \in { j \in 1..Len(s) : MatchAt(s, j, pattern) > 0 } |->
                     [length |-> MatchAt(s, i, pattern),
                      text |-> Replacement(SubSeq(s, i, i + MatchAt(s, i, pattern) - 1), pattern)]])

\* the API key patterns of redactSecrets
ApiKeyPatterns ==
    << Pattern("apiKey", {<<"s", "k", "_", "l", "i", "v", "e", "_">>}, AlphaNum, 20, 0),
       Pattern("apiKey", {<<"s", "k", "_", "t", "e", "s", "t", "_">>}, AlphaNum, 20, 0),
       Pattern("apiKey", {<<"p", "k", "_", "l", "i", "v", "e", "_">>}, AlphaNum, 20, 0),
       Pattern("apiKey", {<<"p", "k", "_", "t", "e", "s", "t", "_">>}, AlphaNum, 20, 0),
       Pattern("apiKey", {<<"A", "K", "I", "A">>}, UpperLetters \cup Digits, 16, 16),
       Pattern("apiKey", {<<"x", "o", "x", "b", "-">>, <<"x", "o", "x", "p", "-">>, <<"x", "o", "x", "a", "-">>, <<"x", "o", "x", "s", "-">>}, AlphaNum \cup {"-"}, 10, 0),
       Pattern("apiKey", {<<"g", "h", "p", "_">>}, AlphaNum, 36, 36),
       Pattern("apiKey", {<<"g", "l", "p", "a", "t", "-">>}, AlphaNum \cup {"-", "_"}, 20, 0) >>

\* the patterns of redactMnemonicPhrases
MnemonicPatterns ==
    << Pattern("quoted", {<<"\"">>}, PhraseChars, 40, 0),
       Pattern("quoted", {<<"'">>}, PhraseChars, 40, 0),
       Pattern("labelled", {<<"m", "n", "e", "m", "o", "n", "i", "c">>}, PhraseChars, 40, 0),
       Pattern("labelled", {<<"s", "e", "e", "d">>}, PhraseChars, 40, 0),
       Pattern("labelled", {<<"p", "h", "r", "a", "s", "e">>}, PhraseChars, 40, 0),
       Pattern("labelled", {<<"r", "e", "c", "o", "v", "e", "r", "y">>}, PhraseChars, 40, 0) >>

\* result = result.replace(pattern, ...) for each pattern in turn
RECURSIVE ReplaceEach(_, _)
ReplaceEach(s, patterns) ==
    IF patterns = <<>> THEN s ELSE ReplaceEach(ReplaceAll(s, Head(patterns)), Tail(patterns))

redactMnemonicPhrases(input) == ReplaceEach(input, MnemonicPatterns)

PrivateKeyPatterns ==
    << Pattern("prefixedKey", {<<"0", "x">>}, HexDigits, 64, 64), Pattern("bareKey", {}, HexDigits, 64, 64) >>

redactSecrets(input) ==
    IF input = <<>> THEN input
    ELSE redactMnemonicPhrases(ReplaceEach(IF Len(input) > MAX_INPUT_LENGTHS.errorMessage
             THEN SubSeq(input, 1, MAX_INPUT_LENGTHS.errorMessage) \o <<".", ".", ".", "[", "T", "R", "U", "N", "C", "A", "T", "E", "D", "]">>
             ELSE input, PrivateKeyPatterns \o ApiKeyPatterns))
(***************************************************************************)
(* Errors of the node layer and transaction.helpers.ts                     *)
(***************************************************************************)
\* a message that has not passed through sanitizeError
RawText(text) == [text |-> text, sanitized |-> FALSE]

\* new NodeOperationError(node, message, { itemIndex })
NodeOperationError(message) == [kind |-> "NodeOperationError", message |-> message.text, sanitized |-> message.sanitized]

sanitizeError(error) ==
    [text |-> IF error.kind \in {"undefined", "null"} THEN <<"U", "n", "k", "n", "o", "w", "n", " ", "e", "r", "r", "o", "r">> ELSE redactSecrets(error.message),
     sanitized |-> TRUE]

VALID_TRANSITION_STATES == <<<<"Q", "U", "O", "T", "E", "D">>, <<"I", "N", "_", "P", "R", "O", "G", "R", "E", "S", "S">>, <<"D", "E", "L", "I", "V", "E", "R", "E", "D">>, <<"D", "I", "S", "P", "U", "T", "E", "D">>, <<"C", "A", "N", "C", "E", "L", "L", "E", "D">>>>

validateTransitionState(state) ==
    LET normalized == trim((LET UpperOf(c) == CHOOSE u \in UpperLetters : LowerOf[u] = c IN [i \in 1..Len(state) |-> IF state[i] \in LowerLetters THEN UpperOf(state[i]) ELSE state[i]])) IN
    IF \E k \in 1..Len(VALID_TRANSITION_STATES) : VALID_TRANSITION_STATES[k] = normalized
    THEN Ok(normalized)
    ELSE Throws(NodeOperationError(RawText(<<"I", "n", "v", "a", "l", "i", "d", " ", "t", "r", "a", "n", "s", "i", "t", "i", "o", "n", " ", "s", "t", "a", "t", "e", ":", " ", "\"">> \o state \o <<"\"", ".", " ", "V", "a", "l", "i", "d", " ", "s", "t", "a", "t", "e", "s", ":", " ", "Q", "U", "O", "T", "E", "D", ",", " ", "I", "N", "_", "P", "R", "O", "G", "R", "E", "S", "S", ",", " ", "D", "E", "L", "I", "V", "E", "R", "E", "D", ",", " ", "D", "I", "S", "P", "U", "T", "E", "D", ",", " ", "C", "A", "N", "C", "E", "L", "L", "E", "D">>)))

\* a value other than null or undefined
Present == "value"

\* response is what executeWithProtection settled with for the operation
executeSDKOperation(response) ==
    IF response.ok THEN response ELSE Throws(NodeOperationError(sanitizeError(response.error)))

\* getTransactionOrThrow without `if (!tx) throw`
getTransactionOrThrow_NoNullCheck(response, txId) == response

getTransactionOrThrow(response, txId) ==
    IF ~response.ok THEN response
    ELSE IF response.value = Absent THEN Throws(NodeOperationError(RawText(<<"T", "r", "a", "n", "s", "a", "c", "t", "i", "o", "n", " ">> \o txId \o <<" ", "n", "o", "t", " ", "f", "o", "u", "n", "d">>)))
    ELSE response

(***************************************************************************)
(* Handlers.  A handler body is its steps in order: checks of its          *)
(* parameters and protected SDK operations; it stops at the first step     *)
(* that throws, and its catch block wraps what was thrown                  *)
(***************************************************************************)
\* a user-supplied parameter as it reaches an SDK call
Input(kind, value) == [kind |-> kind, value |-> value]

\* const parsed = parseX(input), or validateTransitionState(input): the step
\* keeps whether it threw and what; the parsed value goes into the later calls
Check(parsed) == [type |-> "check", parsed |-> IF parsed.ok THEN Ok(Present) ELSE parsed,
                  method |-> <<>>, inputs |-> {}, txId |-> <<>>]

\* await executeSDKOperation(() => client...method(...), ...)
Sdk(method, inputs) == [type |-> "sdk", parsed |-> Ok(Present), method |-> method, inputs |-> inputs, txId |-> <<>>]

\* await getTransactionOrThrow(client, txId, ...)
Get(txId, inputs) == [type |-> "get", parsed |-> Ok(Present), method |-> <<"g", "e", "t", "T", "r", "a", "n", "s", "a", "c", "t", "i", "o", "n">>, inputs |-> inputs, txId |-> txId]

Threw(error, calls) == [ok |-> FALSE, operation |-> <<>>, error |-> error, calls |-> calls]

\* the rest of the body after a step settled; calls holds the SDK calls
\* issued so far, the step's own included, each with the operation of the
\* handler that issued it and what it settled with
RECURSIVE RunSteps(_, _, _, _)
AfterStep(operation, steps, responses, calls, settled) ==
    IF ~settled.ok THEN Threw(settled.error, calls)
    ELSE RunSteps(operation, Tail(steps), IF Head(steps).type = "check" THEN responses ELSE Tail(responses), calls)

RunSteps(operation, steps, responses, calls) ==
    IF steps = <<>> THEN ([ok |-> TRUE, operation |-> operation, error |-> NoNodeError, calls |-> calls])
    ELSE AfterStep(operation, steps, responses,
                   IF Head(steps).type = "check" THEN calls
                   ELSE Append(calls, [operation |-> operation, method |-> Head(steps).method, inputs |-> Head(steps).inputs,
                                       response |-> IF Head(responses).ok THEN Head(responses).value ELSE "rejected"]),
                   CASE Head(steps).type = "check" -> Head(steps).parsed
                     [] Head(steps).type = "sdk" -> executeSDKOperation(Head(responses))
                     [] Head(steps).type = "get" -> getTransactionOrThrow(Head(responses), Head(steps).txId))

\* catch (error) { throw new NodeOperationError(node, sanitizeError(error)) }
Catch(outcome) ==
    IF outcome.ok THEN outcome ELSE [outcome EXCEPT !.error = NodeOperationError(sanitizeError(outcome.error))]

\* the try block of a handler: the operation it reports and its steps
Try(operation, steps) == [operation |-> operation, steps |-> steps]

\* try { body } catch (error) { ... }, run against what the SDK operations
\* of the body settle with, in their order
Handler(body, responses) == Catch(RunSteps(body.operation, body.steps, responses, <<>>))

TxIdInput(txId) == {Input("transactionId", Str(txId))}

handleSendPayment(to, amount, deadlineInput, disputeWindowInput) ==
    Try(<<"s", "e", "n", "d", "P", "a", "y", "m", "e", "n", "t">>,
            <<Check(parseAddress(to, <<"R", "e", "c", "i", "p", "i", "e", "n", "t", " ", "a", "d", "d", "r", "e", "s", "s">>)),
              Check(parseDeadline(deadlineInput)),
              Check(parseDisputeWindow(disputeWindowInput)),
              Sdk(<<"p", "a", "y">>, {Input("address", Str(to)), Input("amount", amount),
                            Input("deadline", deadlineInput), Input("disputeWindow", disputeWindowInput)})>>)

handleCheckStatus(txId) ==
    Try(<<"c", "h", "e", "c", "k", "S", "t", "a", "t", "u", "s">>, <<Check(parseTransactionId(txId)), Sdk(<<"c", "h", "e", "c", "k", "S", "t", "a", "t", "u", "s">>, TxIdInput(txId))>>)

handleStartWork(txId) ==
    Try(<<"s", "t", "a", "r", "t", "W", "o", "r", "k">>,
            <<Check(parseTransactionId(txId)),
              Sdk(<<"t", "r", "a", "n", "s", "i", "t", "i", "o", "n", "S", "t", "a", "t", "e">>, TxIdInput(txId)),
              Get(parseTransactionId(txId).value, TxIdInput(txId))>>)

handleMarkDelivered(txId) ==
    Try(<<"m", "a", "r", "k", "D", "e", "l", "i", "v", "e", "r", "e", "d">>,
            <<Check(parseTransactionId(txId)),
              Sdk(<<"t", "r", "a", "n", "s", "i", "t", "i", "o", "n", "S", "t", "a", "t", "e">>, TxIdInput(txId)),
              Get(parseTransactionId(txId).value, TxIdInput(txId))>>)

handleReleasePayment(txId) ==
    Try(<<"r", "e", "l", "e", "a", "s", "e", "P", "a", "y", "m", "e", "n", "t">>,
            <<Check(parseTransactionId(txId)),
              Get(parseTransactionId(txId).value, TxIdInput(txId)),
              Sdk(<<"r", "e", "l", "e", "a", "s", "e", "E", "s", "c", "r", "o", "w">>, TxIdInput(txId))>>)

handleRaiseDispute(txId) ==
    Try(<<"r", "a", "i", "s", "e", "D", "i", "s", "p", "u", "t", "e">>, <<Check(parseTransactionId(txId)), Sdk(<<"t", "r", "a", "n", "s", "i", "t", "i", "o", "n", "S", "t", "a", "t", "e">>, TxIdInput(txId))>>)

handleCancelSimple(txId) ==
    Try(<<"c", "a", "n", "c", "e", "l">>, <<Check(parseTransactionId(txId)), Sdk(<<"t", "r", "a", "n", "s", "i", "t", "i", "o", "n", "S", "t", "a", "t", "e">>, TxIdInput(txId))>>)

\* created is what client.intermediate.createTransaction resolved with
handleCreateTransaction(provider, amount, deadlineInput, disputeWindowInput, created) ==
    LET txId == IF created = Absent THEN <<"u", "n", "d", "e", "f", "i", "n", "e", "d">> ELSE <<"0", "x">> \o Repeat("d", 64) IN
    Try(<<"c", "r", "e", "a", "t", "e", "T", "r", "a", "n", "s", "a", "c", "t", "i", "o", "n">>,
            <<Check(parseAddress(provider, <<"P", "r", "o", "v", "i", "d", "e", "r", " ", "a", "d", "d", "r", "e", "s", "s">>)),
              Check(parseDeadline(deadlineInput)),
              Check(parseDisputeWindow(disputeWindowInput)),
              Sdk(<<"c", "r", "e", "a", "t", "e", "T", "r", "a", "n", "s", "a", "c", "t", "i", "o", "n">>, {Input("address", Str(provider)), Input("amount", amount),
                                          Input("deadline", deadlineInput), Input("disputeWindow", disputeWindowInput)}),
              Get(txId, {})>>)

handleLinkEscrow(txId) ==
    Try(<<"l", "i", "n", "k", "E", "s", "c", "r", "o", "w">>,
            <<Check(parseTransactionId(txId)),
              Sdk(<<"l", "i", "n", "k", "E", "s", "c", "r", "o", "w">>, TxIdInput(txId)),
              Get(parseTransactionId(txId).value, TxIdInput(txId))>>)

handleTransitionState(txId, newState) ==
    Try(<<"t", "r", "a", "n", "s", "i", "t", "i", "o", "n", "S", "t", "a", "t", "e">>,
            <<Check(parseTransactionId(txId)),
              Check(validateTransitionState(newState)),
              Get(parseTransactionId(txId).value, TxIdInput(txId)),
              Sdk(<<"t", "r", "a", "n", "s", "i", "t", "i", "o", "n", "S", "t", "a", "t", "e">>, TxIdInput(txId)),
              Get(parseTransactionId(txId).value, TxIdInput(txId))>>)

handleReleaseEscrow(escrowId, attestationUID) ==
    LET attestationParams == IF attestationUID = <<>> THEN {} ELSE {Input("attestationUID", Str(attestationUID))} IN
    Try(<<"r", "e", "l", "e", "a", "s", "e", "E", "s", "c", "r", "o", "w">>, <<Sdk(<<"r", "e", "l", "e", "a", "s", "e", "E", "s", "c", "r", "o", "w">>, {Input("escrowId", Str(escrowId))} \cup attestationParams)>>)

handleGetTransaction(txId) ==
    Try(<<"g", "e", "t", "T", "r", "a", "n", "s", "a", "c", "t", "i", "o", "n">>,
            <<Check(parseTransactionId(txId)), Get(parseTransactionId(txId).value, TxIdInput(txId))>>)

handleGetEscrowBalance(escrowId) ==
    Try(<<"g", "e", "t", "E", "s", "c", "r", "o", "w", "B", "a", "l", "a", "n", "c", "e">>, <<Sdk(<<"g", "e", "t", "E", "s", "c", "r", "o", "w", "B", "a", "l", "a", "n", "c", "e">>, {Input("escrowId", Str(escrowId))})>>)

handleCancelAdvanced(txId) ==
    Try(<<"c", "a", "n", "c", "e", "l">>,
            <<Check(parseTransactionId(txId)),
              Get(parseTransactionId(txId).value, TxIdInput(txId)),
              Sdk(<<"t", "r", "a", "n", "s", "i", "t", "i", "o", "n", "S", "t", "a", "t", "e">>, TxIdInput(txId))>>)

(***************************************************************************)
(* Inputs of the node                                                      *)
(***************************************************************************)
\* number of input items of one execution
MaxItems == 2

\* a private key, as configured in the credentials or pasted into a field
PrivateKeyText == <<"0", "x">> \o Repeat("a", 64)

\* the values the parameters of an item are drawn from
Inputs ==
    [address |-> { <<"0", "x">> \o Repeat("b", 40), ZeroAddress, PrivateKeyText },
     amount |-> { Str(<<"1", "0">>), Str(<<"-", "5">>) },
     deadline |-> { Num(24), Str(<<"+", "7", "d">>), Str(<<"s", "o", "o", "n">>) },
     disputeWindow |-> { Str(<<"2", "d">>), Str(<<"n", "e", "v", "e", "r">>) },
     transactionId |-> { <<"0", "x">> \o Repeat("c", 64), <<"0", "x", "1", "2">> },
     escrowId |-> { <<"0", "x">> \o Repeat("e", 64), <<"e", "s", "c", "r", "o", "w", "-", "1">> },
     newState |-> { <<"d", "e", "l", "i", "v", "e", "r", "e", "d">>, <<"S", "E", "T", "T", "L", "E", "D">> },
     attestationUID |-> { <<>>, <<"0", "x">> \o Repeat("f", 64) },
     operation |-> { <<"r", "e", "f", "u", "n", "d">> }]

ResponsesOf(n) == [1..n -> ({ Ok(Present), Ok(Absent), Throws(NewError(<<"c", "o", "u", "l", "d", " ", "n", "o", "t", " ", "s", "i", "g", "n", " ", "w", "i", "t", "h", " ", "k", "e", "y", " ">> \o PrivateKeyText)) })]

\* what createActpClient throws: the errors of createClientFromCredentials
\* and a rejection of ACTPClient.create
ClientErrors ==
    LET Raised(error) == [kind |-> error.kind, message |-> error.message, sanitized |-> FALSE] IN
    { Raised(PreCreateError(c)) : c \in { d \in CredentialChoices : PreCreateError(d) # NoError } }
        \cup { Raised(CreateRejection), NewError(<<"i", "n", "v", "a", "l", "i", "d", " ", "s", "i", "g", "n", "e", "r", " ">> \o PrivateKeyText) }

(***************************************************************************)
(* The ways one item can go: the outcome of its handler (or of creating    *)
(* the client), with what the catch block of execute makes of it           *)
(***************************************************************************)
\* `thrown` is what execute re-throws, `pushed` the error text it pushes
\* under continueOnFail
LoopBody(outcome) ==
    [ok |-> outcome.ok, operation |-> outcome.operation, calls |-> outcome.calls, thrown |-> outcome.error,
     pushed |-> sanitizeError(outcome.error)]

\* the handler bodies an item can run, by operation, each with what its
\* SDK operations settle with
Calls ==
    LET Of(bodies, n) == bodies \X ResponsesOf(n)
        ById(handler(_), n) == Of({ handler(txId) : txId \in Inputs.transactionId }, n)
    IN [sendPayment |->
            Of({ handleSendPayment(to, amount, deadline, disputeWindow) :
                    to \in Inputs.address, amount \in Inputs.amount, deadline \in Inputs.deadline,
                    disputeWindow \in Inputs.disputeWindow }, 1),
        checkStatus |-> ById(handleCheckStatus, 1),
        startWork |-> ById(handleStartWork, 2),
        markDelivered |-> ById(handleMarkDelivered, 2),
        releasePayment |-> ById(handleReleasePayment, 2),
        raiseDispute |-> ById(handleRaiseDispute, 1),
        cancel |-> ById(handleCancelSimple, 1),
        createTransaction |->
            { <<handleCreateTransaction(provider, amount, deadline, disputeWindow, responses[1].value), responses>> :
                    provider \in Inputs.address, amount \in Inputs.amount, deadline \in Inputs.deadline,
                    disputeWindow \in Inputs.disputeWindow, responses \in ResponsesOf(2) },
        linkEscrow |-> ById(handleLinkEscrow, 2),
        transitionState |->
            Of({ handleTransitionState(txId, newState) : txId \in Inputs.transactionId, newState \in Inputs.newState }, 3),
        releaseEscrow |->
            Of({ handleReleaseEscrow(escrowId, attestationUID) :
                    escrowId \in Inputs.escrowId, attestationUID \in Inputs.attestationUID }, 1),
        getTransaction |-> ById(handleGetTransaction, 1),
        getEscrowBalance |-> Of({ handleGetEscrowBalance(escrowId) : escrowId \in Inputs.escrowId }, 1),
        cancelAdvanced |-> ById(handleCancelAdvanced, 2)]

\* the outcomes of an item, by what the item runs into: createActpClient
\* throwing, the default case of the switch on the operation, or a handler
Outcomes ==
    LET Unknown(prefix) == { Threw(NodeOperationError(RawText(prefix \o operation)), <<>>) : operation \in Inputs.operation }
        Thrown == [createActpClient |-> { Threw(e, <<>>) : e \in ClientErrors },
                   unknownSimple |-> Unknown(<<"U", "n", "k", "n", "o", "w", "n", " ", "S", "i", "m", "p", "l", "e", " ", "m", "o", "d", "e", " ", "o", "p", "e", "r", "a", "t", "i", "o", "n", ":", " ">>),
                   unknownAdvanced |-> Unknown(<<"U", "n", "k", "n", "o", "w", "n", " ", "A", "d", "v", "a", "n", "c", "e", "d", " ", "m", "o", "d", "e", " ", "o", "p", "e", "r", "a", "t", "i", "o", "n", ":", " ">>)]
    IN [k \in DOMAIN Thrown \cup DOMAIN Calls |->
            IF k \in DOMAIN Thrown THEN { LoopBody(outcome) : outcome \in Thrown[k] }
            ELSE { LoopBody(Handler(call[1], call[2])) : call \in Calls[k] }]

(***************************************************************************)
(* Actp.execute: one action per item, by the path the item takes           *)
(***************************************************************************)
InitNode ==
    /\ nodePc = "idle"
    /\ mode = <<"s", "i", "m", "p", "l", "e">>
    /\ continueOnFail = FALSE
    /\ items = 0
    /\ itemIndex = 0
    /\ returnData = <<>>
    /\ thrownError = NoNodeError
    /\ sdkCalls = <<>>

\* const items = this.getInputData(); const mode = this.getNodeParameter('mode', 0)
Execute ==
    /\ nodePc = "idle"
    /\ \E m \in {<<"s", "i", "m", "p", "l", "e">>, <<"a", "d", "v", "a", "n", "c", "e", "d">>}, c \in BOOLEAN, n \in 0..MaxItems :
        /\ mode' = m
        /\ continueOnFail' = c
        /\ items' = n
        /\ nodePc' = IF n = 0 THEN "returned" ELSE "running"
    /\ UNCHANGED <<itemIndex, returnData, thrownError, sdkCalls>>
    /\ UNCHANGED execVars
    /\ UNCHANGED <<cacheVars, utilVars>>

\* FinishItem without the continueOnFail branch of the catch block
FinishItem_Rethrow(outcome) ==
    /\ nodePc = "running"
    /\ sdkCalls' = outcome.calls
    /\ IF outcome.ok
       THEN \* formatSuccess(operation, ...) with the item's index, or
            \* { success: false, error: sanitizeError(error), itemIndex: i }
            /\ returnData' = Append(returnData, [success |-> outcome.ok, operation |-> outcome.operation,
                                                  error |-> outcome.pushed, itemIndex |-> itemIndex])
            /\ itemIndex' = itemIndex + 1
            /\ nodePc' = IF itemIndex + 1 < items THEN "running" ELSE "returned"
            /\ UNCHANGED thrownError
       ELSE /\ thrownError' = outcome.thrown
            /\ nodePc' = "thrown"
            /\ UNCHANGED <<returnData, itemIndex>>
    /\ UNCHANGED <<mode, continueOnFail, items>>
    /\ UNCHANGED execVars
    /\ UNCHANGED <<cacheVars, utilVars>>

\* the loop body for item i once its handler returned or something threw,
\* and the return after the last item
FinishItem(outcome) ==
    /\ nodePc = "running"
    /\ sdkCalls' = outcome.calls
    /\ IF outcome.ok \/ continueOnFail
       THEN \* formatSuccess(operation, ...) with the item's index, or
            \* { success: false, error: sanitizeError(error), itemIndex: i }
            /\ returnData' = Append(returnData, [success |-> outcome.ok, operation |-> outcome.operation,
                                                  error |-> outcome.pushed, itemIndex |-> itemIndex])
            /\ itemIndex' = itemIndex + 1
            /\ nodePc' = IF itemIndex + 1 < items THEN "running" ELSE "returned"
            /\ UNCHANGED thrownError
       ELSE /\ thrownError' = outcome.thrown
            /\ nodePc' = "thrown"
            /\ UNCHANGED <<returnData, itemIndex>>
    /\ UNCHANGED <<mode, continueOnFail, items>>
    /\ UNCHANGED execVars
    /\ UNCHANGED <<cacheVars, utilVars>>

CreateActpClientFails == \E outcome \in Outcomes.createActpClient : FinishItem(outcome)

\* switch (operation) over the simple mode handlers; the default case throws
executeSimpleOperation ==
    /\ mode = <<"s", "i", "m", "p", "l", "e">>
    /\ \E operation \in {"sendPayment", "checkStatus", "startWork", "markDelivered", "releasePayment",
                          "raiseDispute", "cancel", "unknownSimple"} :
           \E outcome \in Outcomes[operation] : FinishItem(outcome)

\* switch (operation) over the advanced mode handlers; the default case throws
executeAdvancedOperation ==
    /\ mode # <<"s", "i", "m", "p", "l", "e">>
    /\ \E operation \in {"createTransaction", "linkEscrow", "transitionState", "releaseEscrow",
                          "getTransaction", "getEscrowBalance", "cancelAdvanced", "unknownAdvanced"} :
           \E outcome \in Outcomes[operation] : FinishItem(outcome)

NextNode ==
    \/ Execute
    \/ CreateActpClientFails
    \/ executeSimpleOperation
    \/ executeAdvancedOperation
(***************************************************************************)
(* isApiKey                                                                *)
(***************************************************************************)
\* apiKeyPatterns.some((pattern) => pattern.test(input)): every pattern is
\* anchored at the start; the last one is /^Bearer\s+[a-zA-Z0-9._-]{20,}/i
isApiKey(input) ==
    /\ input # <<>>
    /\ \/ \E k \in 1..Len(ApiKeyPatterns) : MatchAt(input, 1, ApiKeyPatterns[k]) > 0
       \/ /\ Len(input) >= 6
          /\ toLowerCase(SubSeq(input, 1, 6)) = <<"b", "e", "a", "r", "e", "r">>
          /\ \E k \in 1..RunLength(input, 7, WhiteSpace) :
                 RunLength(input, 7 + k, AlphaNum \cup {".", "_", "-"}) >= 20

(***************************************************************************)
(* Calls of redactSecrets                                                  *)
(***************************************************************************)
MaxRedactions == 2

\* a string handed to redactSecrets: a secret between two pieces of text
Sample(before, secret, after) == [before |-> before, secret |-> secret, after |-> after]

TextOf(s) == s.before \o s.secret \o s.after

RedactSamples ==
    LET Hex64 == [i \in 1..64 |-> IF i % 2 = 1 THEN "4" ELSE "c"]
        Words12 == <<"a", "b", "a", "n", "d", "o", "n", " ", "a", "b", "i", "l", "i", "t", "y", " ", "a", "b", "l", "e", " ", "a", "b", "o", "u", "t", " ", "a", "b", "o", "v", "e", " ", "a", "b", "s", "e", "n", "t", " ", "a", "b", "s", "o", "r", "b", " ", "a", "b", "s", "t", "r", "a", "c", "t", " ", "a", "b", "s", "u", "r", "d", " ", "a", "b", "u", "s", "e", " ", "a", "c", "c", "e", "s", "s", " ", "a", "c", "c", "i", "d", "e", "n", "t">>
        Words24 == Words12 \o <<" ", "a", "c", "c", "o", "u", "n", "t", " ", "a", "c", "c", "u", "s", "e", " ", "a", "c", "h", "i", "e", "v", "e", " ", "a", "c", "i", "d", " ", "a", "c", "o", "u", "s", "t", "i", "c", " ", "a", "c", "q", "u", "i", "r", "e", " ", "a", "c", "r", "o", "s", "s", " ", "a", "c", "t", " ", "a", "c", "t", "i", "o", "n", " ", "a", "c", "t", "o", "r", " ", "a", "c", "t", "r", "e", "s", "s", " ", "a", "c", "t", "u", "a", "l">>
        Address == <<"0", "x">> \o Repeat("B", 40)
    IN { Sample(b, Hex64, a) : b \in {<<>>, <<"k", "e", "y", " ">>, <<"k", "e", "y", "=">>, <<"0", "x">>, <<"s", "i", "g", "n", "e", "r", " ", "0", "x">>, <<"k", "e", "y", "_">>, <<"x">>},
                               a \in {<<>>, <<" ", "r", "e", "j", "e", "c", "t", "e", "d">>, <<",">>, <<"_">>, <<"g">>, <<"0">>} }
       \cup { Sample(b, k, a) :
                b \in {<<>>, <<"t", "o", "k", "e", "n", " ">>},
                k \in {<<"s", "k", "_", "l", "i", "v", "e", "_">> \o Repeat("a", 20), <<"p", "k", "_", "t", "e", "s", "t", "_">> \o Repeat("Z", 24), <<"A", "K", "I", "A">> \o Repeat("Q", 16),
                       <<"x", "o", "x", "b", "-", "0", "1", "2", "3", "4", "5", "6", "7", "8", "9">>, <<"g", "h", "p", "_">> \o Repeat("7", 36), <<"g", "l", "p", "a", "t", "-">> \o Repeat("x", 20),
                       <<"B", "e", "a", "r", "e", "r", " ">> \o Repeat("t", 20), <<"b", "e", "a", "r", "e", "r", " ", " ", "a", "b", "c", "d", "e", "f", "g", "h", "i", "j", ".", "k", "l", "m", "n", "o", "p", "q", "r", "s", "t", "-", "u", "v", "w", "x", "y", "z", "_", "0", "1", "2", "3">>},
                a \in {<<>>, <<" ", "e", "x", "p", "i", "r", "e", "d">>} }
       \cup { Sample(l, p, a) :
                l \in {<<"m", "n", "e", "m", "o", "n", "i", "c", ":", " ">>, <<"S", "e", "e", "d", ":", " ">>, <<"P", "H", "R", "A", "S", "E", ":">>, <<"w", "a", "l", "l", "e", "t", " ", "r", "e", "c", "o", "v", "e", "r", "y", ":", " ", " ">>},
                p \in {Words12, Words24},
                a \in {<<>>, <<".">>, <<",", " ", "r", "e", "t", "r", "y">>, <<" ", "w", "a", "s", " ", "r", "e", "j", "e", "c", "t", "e", "d", " ", "b", "y", " ", "t", "h", "e", " ", "r", "p", "c", " ", "n", "o", "d", "e">>, <<" ", "x">>} }
       \cup { Sample(t, <<>>, <<>>) :
                t \in {<<>>, <<"i", "n", "s", "u", "f", "f", "i", "c", "i", "e", "n", "t", " ", "f", "u", "n", "d", "s", " ", "f", "o", "r", " ", "t", "r", "a", "n", "s", "f", "e", "r">>, <<"p", "r", "o", "v", "i", "d", "e", "r", " ">> \o Address \o <<" ", "i", "s", " ", "n", "o", "t", " ", "r", "e", "g", "i", "s", "t", "e", "r", "e", "d">>,
                       <<"a", "t", " ", "p", "a", "r", "s", "e", "A", "m", "o", "u", "n", "t", " ", "(", "/", "a", "p", "p", "/", "d", "i", "s", "t", "/", "u", "t", "i", "l", "s", "/", "p", "a", "r", "s", "e", "r", "s", ".", "j", "s", ":", "2", "7", ":", "1", "1", ")">>,
                       <<"s", "e", "e", "d", ":", " ", "t", "h", "e", " ", "d", "e", "a", "d", "l", "i", "n", "e", " ", "m", "u", "s", "t", " ", "b", "e", " ", "i", "n", " ", "t", "h", "e", " ", "f", "u", "t", "u", "r", "e", " ", "s", "o", " ", "c", "h", "e", "c", "k", " ", "t", "h", "e", " ", "c", "l", "o", "c", "k", " ", "o", "f", " ", "t", "h", "e", " ", "n", "o", "d", "e">>,
                       <<"\"", "t", "h", "e", " ", "t", "r", "a", "n", "s", "a", "c", "t", "i", "o", "n", " ", "w", "a", "s", " ", "r", "e", "v", "e", "r", "t", "e", "d", " ", "b", "y", " ", "t", "h", "e", " ", "e", "s", "c", "r", "o", "w", " ", "c", "o", "n", "t", "r", "a", "c", "t", "\"">>,
                       <<"h", "a", "s", "h", " ", "0", "x">> \o Repeat("e", 63), <<"i", "d", " ", "A", "K", "I", "A">> \o Repeat("Q", 15), <<"s", "k", "_", "l", "i", "v", "e", "_", "t", "o", "o", "s", "h", "o", "r", "t">>,
                       <<"p", "h", "r", "a", "s", "e", ":", " ", "a", "b", "a", "n", "d", "o", "n", " ", "a", "b", "i", "l", "i", "t", "y", " ", "a", "b", "l", "e", " ", "a", "b", "o", "u", "t", " ", "a", "b", "o", "v", "e", " ", "a", "b", "s", "e", "n", "t", " ", "a", "b", "s", "o", "r", "b", " ", "a", "b", "s", "t", "r", "a", "c", "t">>} }
       \cup { Sample(Repeat(".", n), k, a) :
                n \in {MAX_INPUT_LENGTHS.errorMessage - 15, MAX_INPUT_LENGTHS.errorMessage + 1},
                k \in {<<>>, <<"x", "o", "x", "b", "-", "0", "1", "2", "3", "4", "5", "6", "7", "8", "9">>}, a \in {<<>>} }

InitRedact == InitExecutor /\ InitCache /\ InitNode /\ sample \in RedactSamples /\ outputs = <<>>

\* redactSecrets on the sample, then on what the previous call returned
CallRedactSecrets ==
    /\ Len(outputs) < MaxRedactions
    /\ outputs' = Append(outputs, redactSecrets(IF outputs = <<>> THEN TextOf(sample) ELSE outputs[Len(outputs)]))
    /\ UNCHANGED sample
    /\ UNCHANGED <<execVars, cacheVars, nodeVars>>


(***************************************************************************)
(* formatters.ts: formatAmount                                             *)
(***************************************************************************)
\* formatUnits without the zeros in front of the fraction
formatUnits_Unpadded(value, decimals) ==
    LET magnitude == IF value < 0 THEN 0 - value ELSE value
        digits == numberToString(magnitude % (10 ^ decimals))
        fraction == digits \o Repeat("0", decimals - Len(digits))
        kept == { i \in 1..decimals : i = 1 \/ \E j \in i..decimals : fraction[j] # "0" }
    IN (IF value < 0 THEN <<"-">> ELSE <<>>) \o numberToString(magnitude \div (10 ^ decimals)) \o <<".">> \o SubSeq(fraction, 1, Cardinality(kept))

\* ethers formatUnits(value, decimals): the whole part, a point, and the
\* fraction of `decimals` digits without its trailing zeros, of which one
\* digit always stays ("100.0", "0.05", "0.000001")
formatUnits(value, decimals) ==
    LET magnitude == IF value < 0 THEN 0 - value ELSE value
        digits == numberToString(magnitude % (10 ^ decimals))
        fraction == Repeat("0", decimals - Len(digits)) \o digits
        kept == { i \in 1..decimals : i = 1 \/ \E j \in i..decimals : fraction[j] # "0" }
    IN (IF value < 0 THEN <<"-">> ELSE <<>>) \o numberToString(magnitude \div (10 ^ decimals)) \o <<".">> \o SubSeq(fraction, 1, Cardinality(kept))

\* `$${formatUnits(amountBigInt, 6)} USDC`; the amount is the bigint that
\* parseAmount returned
formatAmount(amount) == <<"$">> \o formatUnits(amount, 6) \o <<" ", "U", "S", "D", "C">>

\* formatted.replace('$', '').replace(' USDC', ''): the first occurrence of
\* each literal is removed, as the round-trip tests do before parsing again
Remove(s, sub) ==
    IF IndexOf(s, sub) = 0 THEN s
    ELSE SubSeq(s, 1, IndexOf(s, sub) - 1) \o SubSeq(s, IndexOf(s, sub) + Len(sub), Len(s))

(***************************************************************************)
(* Calls of the parsers                                                    *)
(***************************************************************************)
\* an input of one parser; for an amount, whether the text denotes a decimal
\* amount and its value in minimal units (rounded down)
ParseSample(parser, input, denotes, units) == [parser |-> parser, input |-> input, denotes |-> denotes, units |-> units]

ParseSamples ==
    LET Amount(text, units) == ParseSample("parseAmount", Str(text), TRUE, units)
        NotAmount(text) == ParseSample("parseAmount", Str(text), FALSE, 0)
        StringInput(parser, text) == ParseSample(parser, Str(text), FALSE, 0)
        Padded(text, length) == Repeat(" ", (length - Len(text)) \div 2) \o text \o Repeat(" ", length - Len(text) - (length - Len(text)) \div 2)
        TxId == <<"0", "x">> \o Repeat("a", 63) \o <<"F">>
        Provider == <<"0", "x">> \o Repeat("b", 40)
    IN { Amount(<<"0", ".", "0", "5">>, 50000), Amount(<<"0", ".", "0", "5", "0", "0", "0", "0">>, 50000), Amount(<<"0", ".", "0", "5", "0", "0", "0", "1">>, 50001), Amount(<<"0", ".", "0", "4", "9", "9", "9", "9">>, 49999),
         Amount(<<"0", ".", "0", "4">>, 40000), Amount(<<"0">>, 0), Amount(<<"0", ".", "0">>, 0), Amount(<<"0", ".", "0", "0", "0", "0", "0", "1">>, 1), Amount(<<"-", "0">>, 0),
         Amount(<<"1", "0", "0">>, 100000000), Amount(<<"1", "0", "0", ".", "5", "0">>, 100500000), Amount(<<"1", "2", "3", ".", "4", "5", "6", "7", "8", "9">>, 123456789),
         Amount(<<"$", "1", ",", "0", "0", "0", ".", "2", "5">>, 1000250000), Amount(<<" ", "5", " ">>, 5000000), Amount(<<"$", " ", "0", ".", "0", "5">>, 50000), Amount(<<".", "5">>, 500000),
         Amount(<<"5", ".">>, 5000000), Amount(<<"2", "1", "4", "7">>, 2147000000), Amount(<<"0", "0", "7", ".", "1", "0">>, 7100000),
         Amount(<<"-", "5">>, -5000000), Amount(<<"-", "0", ".", "0", "1">>, -10000), Amount(<<"-", "0", ".", "0", "0", "0", "0", "0", "1">>, -1), Amount(<<"-", "1", "0", "0", ".", "5", "0">>, -100500000),
         Amount(<<"$", "-", "5">>, -5000000),
         Amount(<<"0", ".", "0", "4", "9", "9", "9", "9", "9">>, 49999), Amount(<<"1", ".", "0", "0", "0", "0", "0", "0", "1">>, 1000000), Amount(<<"1", "0", "0", ".", "1", "2", "3", "4", "5", "6", "7">>, 100123456),
         Amount(<<"0", ".", "0", "5", "0", "0", "0", "0", "0">>, 50000), Amount(<<"0", "x", "1", "2">>, 18000000), Amount(<<"+", "5">>, 5000000), Amount(<<"-", "0", ".", "0", "0", "0", "0", "0", "0", "1">>, -1),
         NotAmount(<<>>), NotAmount(<<" ", " ", " ">>), NotAmount(<<"$">>), NotAmount(<<"a", "b", "c">>), NotAmount(<<"1", "0", "0", " ", "U", "S", "D", "C">>),
         NotAmount(<<"1", ".", "2", ".", "3">>), NotAmount(<<"-", "-", "5">>), NotAmount(<<"5", "-">>), NotAmount(<<".">>), NotAmount(<<"-">>),
         ParseSample("parseAmount", Num(100), TRUE, 100000000), ParseSample("parseAmount", Num(1), TRUE, 1000000),
         ParseSample("parseAmount", Num(0), TRUE, 0), ParseSample("parseAmount", Num(-5), TRUE, -5000000) }
       \cup { ParseSample("parseAmount", Str(Padded(text, MAX_INPUT_LENGTHS.amount + over)), TRUE, 100000000) :
                text \in {<<"1", "0", "0">>, <<"$", "1", "0", "0", ".", "0", "0">>}, over \in {-1, 0, 1, 2} }
       \cup { StringInput("parseAmount", Repeat(c, MAX_INPUT_LENGTHS.amount + over)) : c \in {"x", " ", "$"}, over \in {0, 1, 40} }
       \cup { StringInput("parseAddress", Padded(text, MAX_INPUT_LENGTHS.address + over)) :
                text \in {Provider, ZeroAddress, <<"p", "r", "o", "v", "i", "d", "e", "r">>, <<>>}, over \in {-1, 0, 1, 2} }
       \cup { StringInput("parseTransactionId", Padded(text, MAX_INPUT_LENGTHS.transactionId + over)) :
                text \in {TxId, <<"0", "x", "1", "2">>, <<>>}, over \in {-1, 0, 1, 2} }
       \cup { StringInput("parseDeadline", Padded(text, MAX_INPUT_LENGTHS.deadline + over)) :
                text \in {<<"+", "2", "4", "h">>, <<"2", "0", "3", "0", "-", "0", "1", "-", "0", "1", "T", "0", "0", ":", "0", "0", ":", "0", "0", "Z">>, <<"1", "9", "0", "0", "0", "0", "0", "0", "0", "0">>, <<"t", "o", "m", "o", "r", "r", "o", "w">>, <<>>}, over \in {-1, 0, 1, 2} }
       \cup { StringInput("parseDisputeWindow", Padded(text, MAX_INPUT_LENGTHS.disputeWindow + over)) :
                text \in {<<"2", "d">>, <<"3", "6", "0", "0">>, <<"s", "o", "o", "n">>, <<>>}, over \in {-1, 0, 1, 2} }
       \cup { StringInput(parser, Repeat("x", 300)) : parser \in {"parseAddress", "parseTransactionId", "parseDeadline", "parseDisputeWindow"} }
       \cup { StringInput("parseAddress", Provider), StringInput("parseTransactionId", TxId), StringInput("parseDeadline", <<"+", "7", "d">>),
              StringInput("parseDisputeWindow", <<"3", "0", "m">>), StringInput("parseDisputeWindow", <<"2", "D">>),
              StringInput("parseDisputeWindow", <<"3", "6", "0", "0", "s">>), StringInput("parseDisputeWindow", <<"0">>),
              StringInput("parseDisputeWindow", <<"-", "5">>), StringInput("parseDisputeWindow", <<"-", "1", ".", "5">>),
              StringInput("parseDisputeWindow", <<"1", ".", "5">>), StringInput("parseDisputeWindow", <<"0", "x", "1", "0">>),
              StringInput("parseDisputeWindow", <<"2", "w">>), StringInput("parseDisputeWindow", <<"i", "n", "v", "a", "l", "i", "d">>),
              StringInput("parseDisputeWindow", <<"-", "2", "d">>), StringInput("parseDisputeWindow", <<"2", " ", "d">>),
              StringInput("parseDisputeWindow", <<"+", "7">>),
              ParseSample("parseDisputeWindow", Num(3600), FALSE, 0), ParseSample("parseDisputeWindow", Num(0), FALSE, 0),
              ParseSample("parseDisputeWindow", Num(-5), FALSE, 0), ParseSample("parseDisputeWindow", Num(-86400), FALSE, 0),
              StringInput("parseAddress", ZeroAddress), StringInput("parseAddress", Repeat("0", 40)),
              StringInput("parseAddress", <<" ", " ">> \o Repeat("0", 40) \o <<" ">>), StringInput("parseAddress", <<"0", "X">> \o Repeat("0", 40)),
              StringInput("parseAddress", Repeat("0", 39) \o <<"1">>), StringInput("parseAddress", <<"0", "x">> \o Repeat("0", 39)),
              StringInput("parseAddress", Repeat("b", 40)), StringInput("parseAddress", <<"0", "x">> \o Repeat("B", 40)) }
       \* a deadline in hours: the number of hours
       \cup { ParseSample("parseDeadline", input, TRUE, 24) : input \in {Num(24), Str(<<"2", "4">>), Str(<<" ", "2", "4", " ">>)} }
       \cup { ParseSample("parseDeadline", input, TRUE, 1) : input \in {Num(1), Str(<<"1">>)} }
       \cup { ParseSample("parseDeadline", input, TRUE, 168) : input \in {Num(168), Str(<<"1", "6", "8">>)} }
       \cup { StringInput("parseDeadline", text) : text \in {<<"+", "2", "4", "H">>, <<"+", "3", "0", "m">>, <<"+", "5", "w">>, <<"i", "n", "v", "a", "l", "i", "d">>, <<"1", "8", "0", "0", "0", "0", "0", "0", "0", "0">>} }
       \cup { ParseSample("parseDeadline", Num(1800000000), FALSE, 0) }
       \cup { StringInput("parseState", text) :
                text \in {<<"I", "N", "I", "T", "I", "A", "T", "E", "D">>, <<"q", "u", "o", "t", "e", "d">>, <<"C", "o", "m", "m", "i", "t", "t", "e", "d">>, <<"I", "N", "_", "P", "R", "O", "G", "R", "E", "S", "S">>, <<"I", "N", "P", "R", "O", "G", "R", "E", "S", "S">>, <<"i", "n", " ", "p", "r", "o", "g", "r", "e", "s", "s">>, <<"D", "e", "l", "i", "v", "e", "r", "e", "d">>,
                          <<"s", "e", "t", "t", "l", "e", "d">>, <<"D", "I", "S", "P", "U", "T", "E", "D">>, <<"C", "A", "N", "C", "E", "L", "L", "E", "D">>, <<"C", "A", "N", "C", "E", "L", "E", "D">>, <<"U", "N", "K", "N", "O", "W", "N">>, <<"u", "n", "k", "n", "o", "w", "n">>, <<>>, <<"c", "o", "n", "s", "t", "r", "u", "c", "t", "o", "r">>,
                          <<"C", "o", "n", "s", "t", "r", "u", "c", "t", "o", "r">>, <<"t", "o", "S", "t", "r", "i", "n", "g">>, <<"v", "a", "l", "u", "e", "O", "f">>, <<"h", "a", "s", "O", "w", "n", "P", "r", "o", "p", "e", "r", "t", "y">>, <<"_", "_", "p", "r", "o", "t", "o", "_", "_">>, <<"p", "r", "o", "t", "o", "t", "y", "p", "e">>,
                          <<"s", "e", "t", "t", "l", "e">>, <<"5">>, <<"i", "n", "i", "t", "i", "a", "t", "e", "d", "_">>} }

InitParse == InitExecutor /\ InitCache /\ InitNode /\ sample \in ParseSamples /\ outputs = <<>>

\* one call: the function, its argument and what came back
ParserCall(function, input, outcome) == [function |-> function, input |-> input, outcome |-> outcome]

\* the parser of the sample on the sample's input
CallParser ==
    /\ outputs = <<>>
    /\ outputs' = << ParserCall(sample.parser, sample.input,
                          CASE sample.parser = "parseAmount" -> parseAmount(sample.input)
                            [] sample.parser = "parseDeadline" -> parseDeadline(sample.input)
                            [] sample.parser = "parseDisputeWindow" -> parseDisputeWindow(sample.input)
                            [] sample.parser = "parseAddress" -> parseAddress(sample.input.str, <<"A", "d", "d", "r", "e", "s", "s">>)
                            [] sample.parser = "parseTransactionId" -> parseTransactionId(sample.input.str)
                            [] sample.parser = "parseState" -> parseState(sample.input.str)) >>
    /\ UNCHANGED sample
    /\ UNCHANGED <<execVars, cacheVars, nodeVars>>

\* formatAmount on the amount that parseAmount returned
CallFormatAmount ==
    /\ Len(outputs) = 1
    /\ sample.parser = "parseAmount"
    /\ outputs[1].outcome.ok
    /\ outputs' = Append(outputs, ParserCall("formatAmount", outputs[1].outcome.value, Ok(formatAmount(outputs[1].outcome.value))))
    /\ UNCHANGED sample
    /\ UNCHANGED <<execVars, cacheVars, nodeVars>>

\* parseAmount on the formatted amount, as it is or with '$' and ' USDC'
\* removed first
CallParseFormatted ==
    /\ Len(outputs) = 2
    /\ \E text \in {outputs[2].outcome.value, Remove(Remove(outputs[2].outcome.value, <<"$">>), <<" ", "U", "S", "D", "C">>)} :
           outputs' = Append(outputs, ParserCall("parseAmount", Str(text), parseAmount(Str(text))))
    /\ UNCHANGED sample
    /\ UNCHANGED <<execVars, cacheVars, nodeVars>>

NextParse == CallParser \/ CallFormatAmount \/ CallParseFormatted
(***************************************************************************)
(* Specifications                                                          *)
(***************************************************************************)
\* no utility function is under test
InitUtil == sample = <<>> /\ outputs = <<>>

Init == InitExecutor /\ InitCache /\ InitNode /\ InitUtil

SpecExecutor == Init /\ [][NextExecutor]_vars

\* the event loop runs every due callback and time does not stop
LiveSpecExecutor == SpecExecutor /\ WF_vars(NextExecutor)

SpecCache == Init /\ [][NextCache]_vars

SpecNode == Init /\ [][NextNode]_vars

SpecRedact == InitRedact /\ [][CallRedactSecrets]_vars

SpecParse == InitParse /\ [][NextParse]_vars
(***************************************************************************)
(* Properties of the resilient executor                                    *)
(***************************************************************************)
Retries == args.mode \in {"withRetry", "executeWithProtection"}

Protected == args.mode = "executeWithProtection"

\* rejections of fn that the classifier is meant to treat as transient
RetryableFailures == { o \in FnOutcomes : o.value \in { ErrorOf(<<"E", "C", "O", "N", "N", "R", "E", "S", "E", "T">>),
                                                        ErrorOf(<<"R", "e", "q", "u", "e", "s", "t", " ", "t", "i", "m", "e", "o", "u", "t">>) } }

\* rejections of fn with an Error that names no transient condition
FatalFailures == { o \in FnOutcomes : o.value \in { ErrorOf(<<"r", "e", "v", "e", "r", "t", "e", "d">>), ErrorOf(<<>>) } }

TimeoutTimersOf(i) == { t \in timers : t.kind = "timeout" /\ t.id = i }

\* C1: in executeWithProtection an attempt ended by its timeout timer is
\* retried, so a call whose every attempt timed out has invoked the
\* operation MAX_RETRY_ATTEMPTS times when it fails.
C1_TimeoutIsRetried ==
    (Protected /\ pc = "settled" /\ Len(races) >= 1 /\ \A i \in 1..Len(races) : races[i].by = "timer")
        => Len(ops) = MAX_RETRY_ATTEMPTS

DefaultRetryCall == args.mode = "withRetry" /\ args.maxRetries = MAX_RETRY_ATTEMPTS /\ args.baseDelay = RETRY_BASE_DELAY_MS

\* the invocations made so far behave as: retryable failure, retryable failure, success
FailsTwiceThenSucceeds ==
    /\ Len(ops) >= 1
    /\ \A i \in 1..Len(ops) : /\ i <= 2 => ops[i].outcome \in RetryableFailures
                              /\ i = 3 => ops[i].outcome.state = "fulfilled"
                              /\ i <= 3

FirstFailureFatal == Len(ops) >= 1 /\ ops[1].outcome \in FatalFailures

\* C2: withRetry(fn, 3, 1000): two retryable failures then a success give
\* the success value after exactly 3 invocations with waits of 1000 ms and
\* 2000 ms; a first failure that is not retryable rejects after exactly one
\* invocation and no wait.
C2_RetryBackoff ==
    DefaultRetryCall =>
        /\ (pc = "settled" /\ FailsTwiceThenSucceeds) =>
               /\ result.state = "fulfilled" /\ result.value = OkValue
               /\ Len(ops) = 3
               /\ waits = <<1000, 2000>>
               /\ ops[2].startedAt - races[1].at = 1000
               /\ ops[3].startedAt - races[2].at = 2000
        /\ FirstFailureFatal => (Len(ops) = 1 /\ waits = <<>> /\ timers = {})
        /\ (pc = "settled" /\ FirstFailureFatal) => (result.state = "rejected" /\ result.value = ops[1].outcome.value)

C2_Witness == DefaultRetryCall /\ pc = "settled" /\ FailsTwiceThenSucceeds /\ Len(ops) = 3 /\ result.state = "fulfilled"

C3_Bounded ==
    (Retries /\ args.maxRetries >= 1) =>
        /\ Len(ops) <= args.maxRetries
        /\ \A i \in 2..Len(ops) :
              /\ \/ [state |-> races[i - 1].state, value |-> races[i - 1].value] \in RetryableFailures
                 \/ races[i - 1].by = "timer" /\ includes(args.operation, <<"N", "e", "t", "w", "o", "r", "k">>)
              /\ ops[i].startedAt = races[i - 1].at + args.baseDelay * (2 ^ (i - 2))
        /\ pc = "settled" <=> result.state # "pending"
        /\ \A i \in 1..Len(races) :
              (races[i].state = "fulfilled" \/ (races[i].state = "rejected" /\ i = args.maxRetries)) => pc = "settled"

C3_Terminal == (Retries /\ pc = "settled") => (pc' = pc /\ result' = result /\ Len(ops') = Len(ops) /\ waits' = waits)

\* C3: for maxAttempts >= 1 one withRetry call invokes fn at most maxAttempts
\* times; success, a non-retryable failure and the maxAttempts-th failure are
\* terminal; a retry follows only a retryable failure with attempts left,
\* baseDelayMs * 2^k after the (k+1)-th failed invocation.
C3_RetryStateMachine == []C3_Bounded /\ [][C3_Terminal]_vars

C3_Witness == args.mode = "withRetry" /\ args.maxRetries = 3 /\ Len(ops) = 3 /\ pc = "settled" /\ result.state = "rejected"

\* C4: whenever withRetry rejects, it rejects with exactly the value with
\* which the most recent invocation of fn rejected.
C4_RejectsWithLastRejection ==
    (Retries /\ pc = "settled" /\ result.state = "rejected" /\ Len(races) >= 1)
        => result.value = races[Len(races)].value

C5_Outcome ==
    UsesTimeout(args) =>
        \A i \in 1..Len(races) :
            /\ races[i].by = "timer" =>
                  /\ races[i].state = "rejected"
                  /\ includes(races[i].value.message, args.operation)
                  /\ includes(races[i].value.message, numberToString(args.timeoutMs))
                  /\ races[i].at = ops[i].startedAt + args.timeoutMs
                  /\ ops[i].settleAt # Never => ops[i].settleAt >= races[i].at
            /\ races[i].by = "op" =>
                  /\ races[i].state = ops[i].outcome.state
                  /\ races[i].value = ops[i].outcome.value
                  /\ races[i].at = ops[i].settleAt
                  /\ races[i].at <= ops[i].startedAt + args.timeoutMs
            /\ args.mode = "withTimeout" =>
                  (result.state = races[i].state /\ (result.state # "pending" => result.value = races[i].value))

C5_SettlesOnce ==
    UsesTimeout(args) =>
        \A i \in 1..Len(races) :
            races[i].state # "pending" =>
                /\ races'[i] = races[i]
                /\ (ops'[i] # ops[i] \/ TimeoutTimersOf(i)' # TimeoutTimersOf(i)) =>
                       UNCHANGED <<pc, result, attempt, lastError, waits>>

\* C5: the promise returned by withTimeout settles exactly once and never
\* changes afterwards: if the timer fires first the outcome is a timeout
\* error naming the label and timeoutMs and the operation's later result is
\* discarded; if the operation settles first the outcome is the operation's
\* own and the later timer firing has no effect.
C5_TimeoutRace == []C5_Outcome /\ [][C5_SettlesOnce]_vars

C5_Witness == \E i \in 1..Len(races) : races[i].by = "timer" /\ ops[i].settled

WorstCaseMs == MAX_RETRY_ATTEMPTS * SDK_TIMEOUT_MS + RETRY_BASE_DELAY_MS + 2 * RETRY_BASE_DELAY_MS

C6_FreshTimer ==
    Protected =>
        /\ \A i \in 1..Len(races) :
              races[i].state = "pending" => [kind |-> "timeout", at |-> ops[i].startedAt + SDK_TIMEOUT_MS, id |-> i] \in timers
        /\ pc # "settled" => clock <= WorstCaseMs
        /\ pc = "settled" => result.at <= WorstCaseMs

\* C6: every executeWithProtection call eventually settles, even when the
\* underlying operation never settles: each attempt is raced against its
\* own fresh SDK_TIMEOUT_MS timer, so the call settles within
\* 3 * 30000 ms + 3000 ms of backoff.
C6_EventuallySettles == []C6_FreshTimer /\ [](Protected => <>(pc = "settled"))

C6_Witness == Protected /\ pc = "settled" /\ Len(ops) = 3 /\ ops[3].settleAt = Never /\ result.at = WorstCaseMs

\* C7: withTimeout leaves no timer pending: once the operation has settled
\* the race, the timeout timer created by that call has been cleared.
C7_TimerCleared == \A i \in 1..Len(races) : races[i].by = "op" => TimeoutTimersOf(i) = {}

(***************************************************************************)
(* Invocations in flight                                                   *)
(***************************************************************************)
\* the invocations of the operation that have not settled
InFlight == { i \in 1..Len(ops) : ~ops[i].settled }

\* C27: within one executeWithProtection call, whatever the label, a new
\* invocation of the operation is not started while an earlier invocation
\* of the same call is unsettled: at most one is in flight at any time.
C27_OneInFlight == Protected => Cardinality(InFlight) <= 1

(***************************************************************************)
(* Properties of the client cache                                          *)
(***************************************************************************)
ReturnedClient(r) == r.error = NoError

\* a completed call that ran entirely between two cache clears
WithinOneEpoch(r) == r.epoch0 = r.epoch1

\* C10: between two cache clears, all calls to createClientFromCredentials
\* with identical credentials, sequential or overlapping, return the same
\* client instance, and ACTPClient.create is invoked at most once for them.
C10_OneClientPerCredentials ==
    \A i, j \in 1..Len(returned) :
        (/\ ReturnedClient(returned[i]) /\ ReturnedClient(returned[j])
         /\ WithinOneEpoch(returned[i]) /\ WithinOneEpoch(returned[j])
         /\ returned[i].epoch0 = returned[j].epoch0
         /\ returned[i].credentials = returned[j].credentials)
            => /\ returned[i].client = returned[j].client
               /\ creates[returned[i].client].epoch = returned[i].epoch0

\* C11: a createClientFromCredentials call that starts after clearClientCache
\* has returned never returns a client whose construction (the call of
\* ACTPClient.create) began before that clear, whatever creations were in
\* flight when the cache was cleared.
C11_FreshAfterClear ==
    \A i \in 1..Len(returned) :
        ReturnedClient(returned[i]) => creates[returned[i].client].epoch >= returned[i].epoch0

\* the argument of ACTPClient.create that the credentials call for
CreateArguments(credentials) ==
    IF credentials.environment = <<"m", "o", "c", "k">>
    THEN [mode |-> <<"m", "o", "c", "k">>,
          requesterAddress |-> IF credentials.mockAddress = <<>> THEN <<"0", "x", "1", "1", "1", "1", "1", "1", "1", "1", "1", "1", "1", "1", "1", "1", "1", "1", "1", "1", "1", "1", "1", "1", "1", "1", "1", "1", "1", "1", "1", "1", "1", "1", "1", "1", "1", "1", "1", "1", "1", "1">> ELSE credentials.mockAddress,
          privateKey |-> <<>>, rpcUrl |-> <<>>, stateDirectory |-> credentials.stateDirectory]
    ELSE [mode |-> credentials.environment, requesterAddress |-> [addressOf |-> credentials.privateKey],
          privateKey |-> credentials.privateKey, rpcUrl |-> credentials.rpcUrl, stateDirectory |-> <<>>]

\* C26: the cache is transparent: the client createClientFromCredentials
\* returns for credentials c was constructed by ACTPClient.create from the
\* mode, address, private key, RPC URL and state directory of c.
C26_CacheTransparent ==
    \A i \in 1..Len(returned) :
        ReturnedClient(returned[i]) => creates[returned[i].client].config = CreateArguments(returned[i].credentials)

\* a call that threw: unknown environment, private key missing or malformed,
\* or ACTPClient.create rejecting
FailedCall(r) == r.error # NoError

\* the call that completed last failed, and the step that completed it
C28_CacheKept ==
    Len(returned') = Len(returned) + 1 /\ FailedCall(returned'[Len(returned')]) => clientCache' = clientCache

\* a call that returns a client after a failed call with the same
\* credentials, with no successful call for the same cache key in between,
\* returns a client that ACTPClient.create built for its credentials
C28_ConstructsAgain ==
    \A i, j \in 1..Len(returned) :
        /\ i < j
        /\ FailedCall(returned[i])
        /\ returned[j].credentials = returned[i].credentials
        /\ ReturnedClient(returned[j])
        /\ \A k \in 1..(j - 1) :
               ReturnedClient(returned[k]) => generateCacheKey(returned[k].credentials) # generateCacheKey(returned[j].credentials)
        => /\ creates[returned[j].client].credentials = returned[j].credentials
           /\ creates[returned[j].client].state = "resolved"

\* C28: a createClientFromCredentials call that fails leaves the client
\* cache as it was, and a later call with the same credentials attempts the
\* construction again instead of returning a cached result.
C28_FailureNotCached == []C28_ConstructsAgain /\ [][C28_CacheKept]_vars

\* ACTPClient.create rejected for a call, and a later call with the same
\* credentials constructed and returned a client
C28_Witness ==
    \E i, j \in 1..Len(returned) :
        /\ i < j
        /\ returned[i].error = CreateRejection
        /\ returned[j].credentials = returned[i].credentials
        /\ ReturnedClient(returned[j])

(***************************************************************************)
(* Properties of the node                                                  *)
(***************************************************************************)
\* would the parser of this kind of input accept the value?
ParserAccepts(input) ==
    CASE input.kind = "amount" -> parseAmount(input.value).ok
      [] input.kind = "address" -> parseAddress(input.value.str, <<"A", "d", "d", "r", "e", "s", "s">>).ok
      [] input.kind \in {"transactionId", "escrowId"} -> parseTransactionId(input.value.str).ok
      [] input.kind = "deadline" -> parseDeadline(input.value).ok
      [] input.kind = "disputeWindow" -> parseDisputeWindow(input.value).ok
      [] OTHER -> TRUE

\* C8: every user-supplied amount, address, transaction or escrow id,
\* deadline and dispute window that an SDK call of the item uses is a value
\* its parser accepts
C8_InputsValidated ==
    \A k \in 1..Len(sdkCalls) : \A input \in sdkCalls[k].inputs : ParserAccepts(input)

\* C9: the error that execute re-throws and every error entry it returns
\* carry a message that came out of sanitizeError
C9_ErrorsSanitized ==
    /\ nodePc = "thrown" => thrownError.sanitized
    /\ \A k \in 1..Len(returnData) : ~returnData[k].success => returnData[k].error.sanitized

\* the error the last item failed with: re-thrown, or pushed as an entry
ItemFailedWith(text) ==
    IF nodePc = "thrown" THEN includes(thrownError.message, text)
    ELSE /\ returnData # <<>>
         /\ ~returnData[Len(returnData)].success
         /\ includes(returnData[Len(returnData)].error.text, text)

\* C25: in handleReleasePayment, handleTransitionState and
\* handleCancelAdvanced, when the getTransaction lookup that precedes the
\* state-changing call returns no transaction, releaseEscrow or
\* transitionState is not issued and the handler fails with the not found
\* error.
C25_NoChangeWhenNotFound ==
    \A k \in 1..Len(sdkCalls) :
        /\ \/ mode = <<"s", "i", "m", "p", "l", "e">> /\ sdkCalls[k].operation = <<"r", "e", "l", "e", "a", "s", "e", "P", "a", "y", "m", "e", "n", "t">>
           \/ mode # <<"s", "i", "m", "p", "l", "e">> /\ sdkCalls[k].operation \in {<<"t", "r", "a", "n", "s", "i", "t", "i", "o", "n", "S", "t", "a", "t", "e">>, <<"c", "a", "n", "c", "e", "l">>}
        /\ sdkCalls[k].method = <<"g", "e", "t", "T", "r", "a", "n", "s", "a", "c", "t", "i", "o", "n">>
        /\ sdkCalls[k].response = Absent
        /\ \A j \in 1..(k - 1) : sdkCalls[j].method = <<"g", "e", "t", "T", "r", "a", "n", "s", "a", "c", "t", "i", "o", "n">>
        => /\ \A j \in 1..Len(sdkCalls) : sdkCalls[j].method \notin {<<"r", "e", "l", "e", "a", "s", "e", "E", "s", "c", "r", "o", "w">>, <<"t", "r", "a", "n", "s", "i", "t", "i", "o", "n", "S", "t", "a", "t", "e">>}
           /\ ItemFailedWith(<<"n", "o", "t", " ", "f", "o", "u", "n", "d">>)

\* handleReleasePayment looked the transaction up, got none and threw
C25_Witness ==
    /\ mode = <<"s", "i", "m", "p", "l", "e">>
    /\ Len(sdkCalls) = 1
    /\ sdkCalls[1].operation = <<"r", "e", "l", "e", "a", "s", "e", "P", "a", "y", "m", "e", "n", "t">>
    /\ sdkCalls[1].method = <<"g", "e", "t", "T", "r", "a", "n", "s", "a", "c", "t", "i", "o", "n">>
    /\ sdkCalls[1].response = Absent
    /\ nodePc = "thrown"

\* what holds of the items processed so far
C29_Entries ==
    /\ continueOnFail /\ nodePc # "idle" =>
           /\ nodePc # "thrown"
           /\ Len(returnData) = itemIndex
           /\ nodePc = "returned" => Len(returnData) = items
           /\ \A k \in 1..Len(returnData) :
                  /\ returnData[k].itemIndex = k - 1
                  /\ ~returnData[k].success => returnData[k].error.sanitized
    /\ ~continueOnFail /\ nodePc # "idle" =>
           /\ \A k \in 1..Len(returnData) : returnData[k].success /\ returnData[k].itemIndex = k - 1
           /\ nodePc = "thrown" => Len(returnData) = itemIndex /\ itemIndex < items /\ thrownError # NoNodeError
           /\ nodePc = "returned" => Len(returnData) = items

\* once an item's error has left execute no step follows
C29_Aborted == nodePc = "thrown" => UNCHANGED nodeVars

\* C29: with continueOnFail, execute processes every item in input order
\* and a failure of item i gives exactly one error entry for i (success
\* false, sanitized error, itemIndex i) and the later items are processed;
\* without it the first failing item aborts the execution, no later item is
\* processed and nothing is returned.
C29_ContinueOnFail == []C29_Entries /\ [][C29_Aborted]_vars

\* with continueOnFail the first of two items failed and the second was
\* processed
C29_Witness ==
    /\ continueOnFail
    /\ nodePc = "returned"
    /\ items = 2
    /\ Len(returnData) = 2
    /\ ~returnData[1].success
    /\ returnData[2].success

\* C30: a transaction id (0x and 64 hex digits) in an error message, as in
\* the Transaction <id> not found error of getTransactionOrThrow, is still
\* in the message, unchanged, after the sanitizeError of the handler.
C30_TransactionIdKept ==
    ItemFailedWith(<<"n", "o", "t", " ", "f", "o", "u", "n", "d">>) /\ ~ItemFailedWith(<<"T", "r", "a", "n", "s", "a", "c", "t", "i", "o", "n", " ", "u", "n", "d", "e", "f", "i", "n", "e", "d">>) =>
        \E id \in {<<"0", "x">> \o Repeat("c", 64), <<"0", "x">> \o Repeat("d", 64)} :
            ItemFailedWith(<<"T", "r", "a", "n", "s", "a", "c", "t", "i", "o", "n", " ">> \o id \o <<" ", "n", "o", "t", " ", "f", "o", "u", "n", "d">>)

(***************************************************************************)
(* Properties of redactSecrets                                             *)
(***************************************************************************)
\* C12: redactSecrets is idempotent: applied to its own result it returns
\* that result, for strings longer than 10 000 characters and for strings
\* whose redaction changes their length as well.
C12_Idempotent == Len(outputs) = 2 => outputs[2] = outputs[1]

\* where the runs of exactly 64 hex digits of s start, among its first
\* 10 000 characters
KeyRuns(s) ==
    { i \in 1..Len(s) : /\ i + 63 <= MAX_INPUT_LENGTHS.errorMessage
                        /\ s[i] \in HexDigits
                        /\ (i = 1 \/ s[i - 1] \notin HexDigits)
                        /\ RunLength(s, i, HexDigits) = 64 }

\* C13: every run of exactly 64 hex digits, with or without 0x in front of
\* it, within the first 10 000 characters of the input is replaced by
\* [REDACTED_KEY], whatever characters surround it: the result contains none
\* of these runs.
C13_KeysRedacted ==
    outputs # <<>> =>
        \A i \in KeyRuns(TextOf(sample)) : ~includes(outputs[1], SubSeq(TextOf(sample), i, i + 63))

\* where a run that isApiKey recognises starts in s
ApiKeyRuns(s) == { i \in 1..Len(s) : isApiKey(SubSeq(s, i, Len(s))) }

\* C14: every API-key-like run of a kind isApiKey recognises (Stripe, AWS,
\* Slack, GitHub, GitLab, Bearer tokens) within the first 10 000 characters
\* of the input is replaced by [REDACTED_API_KEY]: where the input had such
\* a run, the result has none left.
C14_ApiKeysRedacted ==
    (outputs # <<>> /\ Len(TextOf(sample)) <= MAX_INPUT_LENGTHS.errorMessage /\ ApiKeyRuns(TextOf(sample)) # {})
        => ApiKeyRuns(outputs[1]) = {}

\* the words of s (its runs of letters) that are on the reference wordlist
WordlistWords(s) ==
    LET letters == [i \in 1..Len(s) |-> IF s[i] \in UpperLetters \cup LowerLetters THEN s[i] ELSE " "]
        words == Words(toLowerCase(letters))
    IN { k \in 1..Len(words) : words[k] \in BIP39_COMMON_WORDS }

\* s is at most 10 000 characters long and has nothing of a secret: no run
\* of 64 hex digits, no run that isApiKey recognises, and too few wordlist
\* words (fewer than 9) for any 11 words of it to pass as a mnemonic
NoSecretPattern(s) ==
    /\ Len(s) <= MAX_INPUT_LENGTHS.errorMessage
    /\ \A i \in 1..Len(s) : (i = 1 \/ s[i - 1] \notin HexDigits) => RunLength(s, i, HexDigits) < 64
    /\ ApiKeyRuns(s) = {}
    /\ Cardinality(WordlistWords(s)) < 9

LabelledPhrase(s) ==
    /\ \E label \in {<<"m", "n", "e", "m", "o", "n", "i", "c", ":">>, <<"s", "e", "e", "d", ":">>, <<"p", "h", "r", "a", "s", "e", ":">>, <<"r", "e", "c", "o", "v", "e", "r", "y", ":">>} :
           /\ Len(trim(s.before)) >= Len(label)
           /\ toLowerCase(SubSeq(trim(s.before), Len(trim(s.before)) - Len(label) + 1, Len(trim(s.before)))) = label
    /\ Len(Words(s.secret)) \in 12..24
    /\ \A k \in 1..Len(Words(s.secret)) : Words(s.secret)[k] \in BIP39_COMMON_WORDS

\* C16: a phrase of 12 to 24 reference-wordlist words that directly follows
\* a recognised label (mnemonic:, seed:, phrase:, recovery:, in any case) is
\* replaced by [REDACTED_MNEMONIC] and the label is kept, whatever text
\* follows the phrase.
C16_LabelledMnemonicRedacted ==
    (outputs # <<>> /\ LabelledPhrase(sample))
        => /\ startsWith(outputs[1], sample.before \o <<"[", "R", "E", "D", "A", "C", "T", "E", "D", "_", "M", "N", "E", "M", "O", "N", "I", "C", "]">>)
           /\ ~includes(outputs[1], sample.secret)

RejectionKind(error) ==
    IF includes(error.message, <<"i", "n", "p", "u", "t", " ", "t", "o", "o", " ", "l", "o", "n", "g">>) THEN "TooLong"
    ELSE IF startsWith(error.message, <<"I", "n", "v", "a", "l", "i", "d", " ", "a", "m", "o", "u", "n", "t">>) THEN "InvalidFormat"
    ELSE IF startsWith(error.message, <<"A", "m", "o", "u", "n", "t", " ", "m", "u", "s", "t", " ", "b", "e", " ", "a", "t", " ", "l", "e", "a", "s", "t">>) THEN "BelowMinimum"
    ELSE IF includes(toLowerCase(error.message), <<"n", "e", "g", "a", "t", "i", "v", "e">>) THEN "Negative"
    ELSE "other"

\* C18: parseAmount rejects every negative amount with an error of kind
\* Negative, which is not the BelowMinimum error of a non-negative amount
\* below the minimum, and every rejection is of kind TooLong, InvalidFormat,
\* BelowMinimum or Negative.
C18_RejectionKinds ==
    \A i \in 1..Len(outputs) :
        outputs[i].function = "parseAmount" /\ ~outputs[i].outcome.ok =>
            /\ RejectionKind(outputs[i].outcome.error) \in {"TooLong", "InvalidFormat", "BelowMinimum", "Negative"}
            /\ i = 1 /\ sample.denotes /\ sample.units < 0 => RejectionKind(outputs[i].outcome.error) = "Negative"

\* how many digits follow the decimal point of an amount
FractionalDigits(input) ==
    LET text == SelectSeq(ToStr(input), LAMBDA c : c \in Digits \cup {"."})
    IN IF IndexOf(text, <<".">>) = 0 THEN 0 ELSE Len(text) - IndexOf(text, <<".">>)

\* C19: for every amount x of at most 6 fractional digits that parseAmount
\* accepts, parseAmount(formatAmount(parseAmount(x))) is parseAmount(x).
C19_RoundTrip ==
    /\ Len(outputs) = 3
    /\ FractionalDigits(sample.input) <= 6
    /\ outputs[3].input = Str(outputs[2].outcome.value)
    => outputs[3].outcome.ok /\ outputs[3].outcome.value = outputs[1].outcome.value

\* C19, amended: for every amount x of at most 6 fractional digits that
\* parseAmount accepts, parseAmount of formatAmount(parseAmount(x)) without
\* its '$' and its ' USDC' is parseAmount(x).
C19_RoundTripStripped ==
    /\ Len(outputs) = 3
    /\ FractionalDigits(sample.input) <= 6
    /\ outputs[3].input = Str(Remove(Remove(outputs[2].outcome.value, <<"$">>), <<" ", "U", "S", "D", "C">>))
    => outputs[3].outcome.ok /\ outputs[3].outcome.value = outputs[1].outcome.value

\* "0.050001" went through parseAmount, formatAmount, the removal of '$' and
\* ' USDC', and parseAmount again
C19_Witness ==
    /\ Len(outputs) = 3
    /\ sample.input = Str(<<"0", ".", "0", "5", "0", "0", "0", "1">>)
    /\ outputs[2].outcome.value = <<"$", "0", ".", "0", "5", "0", "0", "0", "1", " ", "U", "S", "D", "C">>
    /\ outputs[3].input = Str(<<"0", ".", "0", "5", "0", "0", "0", "1">>)
    /\ outputs[3].outcome.ok

\* the limit of the field a parser reads
LengthLimit(parser) ==
    CASE parser = "parseAmount" -> 1024
      [] parser \in {"parseAddress", "parseTransactionId", "parseDeadline", "parseDisputeWindow"} -> 256

\* the field name and the two numbers a length error cites
LengthError(parser, count) ==
    (CASE parser = "parseAmount" -> <<"A", "m", "o", "u", "n", "t">>
       [] parser = "parseAddress" -> <<"A", "d", "d", "r", "e", "s", "s">>
       [] parser = "parseTransactionId" -> <<"T", "r", "a", "n", "s", "a", "c", "t", "i", "o", "n", " ", "I", "D">>
       [] parser = "parseDeadline" -> <<"D", "e", "a", "d", "l", "i", "n", "e">>
       [] parser = "parseDisputeWindow" -> <<"D", "i", "s", "p", "u", "t", "e", " ", "w", "i", "n", "d", "o", "w">>)
    \o <<" ", "i", "n", "p", "u", "t", " ", "t", "o", "o", " ", "l", "o", "n", "g", " ", "(">>
    \o (CASE count = 257 -> <<"2", "5", "7">> [] count = 258 -> <<"2", "5", "8">> [] count = 300 -> <<"3", "0", "0">>
          [] count = 1025 -> <<"1", "0", "2", "5">> [] count = 1026 -> <<"1", "0", "2", "6">> [] count = 1064 -> <<"1", "0", "6", "4">>)
    \o <<" ", "c", "h", "a", "r", "s", ")", ".", " ", "M", "a", "x", "i", "m", "u", "m", " ">>
    \o (IF parser = "parseAmount" THEN <<"1", "0", "2", "4">> ELSE <<"2", "5", "6">>)
    \o <<" ", "c", "h", "a", "r", "a", "c", "t", "e", "r", "s", " ", "a", "l", "l", "o", "w", "e", "d", ".">>

\* C20: each of the five parsers checks the length first: a string longer
\* than the limit of its field (1024 for amounts, 256 for the others) is
\* rejected with an error that cites its exact length, whatever trimming,
\* matching or conversion would have made of it, and a string of exactly the
\* limit is not rejected for its length.
C20_LengthCheckedFirst ==
    Len(outputs) >= 1 /\ sample.parser # "parseState" /\ sample.input.type = "string" =>
        /\ Len(sample.input.str) > LengthLimit(sample.parser) =>
               /\ ~outputs[1].outcome.ok
               /\ outputs[1].outcome.error.message = LengthError(sample.parser, Len(sample.input.str))
        /\ Len(sample.input.str) <= LengthLimit(sample.parser) =>
               \/ outputs[1].outcome.ok
               \/ ~includes(outputs[1].outcome.error.message, <<"t", "o", "o", " ", "l", "o", "n", "g">>)

\* a provider address between spaces, 257 characters in all, was rejected
\* for its length
C20_Witness ==
    /\ Len(outputs) = 1
    /\ sample.parser = "parseAddress"
    /\ isAddress(trim(sample.input.str))
    /\ Len(sample.input.str) = 257
    /\ ~outputs[1].outcome.ok

\* does the text spell the address of 40 zeros, with or without 0x?
DenotesZeroAddress(text) ==
    \/ text = Repeat("0", 40)
    \/ Len(text) = 42 /\ SubSeq(text, 1, 2) = <<"0", "x">> /\ SubSeq(text, 3, 42) = Repeat("0", 40)

\* C21: parseAddress never returns a spelling of the all-zero address: every
\* spelling of it that isAddress accepts, with or without 0x and with
\* whitespace around it, is rejected with the zero-address error.
C21_ZeroAddressRejected ==
    Len(outputs) >= 1 /\ sample.parser = "parseAddress" =>
        /\ outputs[1].outcome.ok => ~DenotesZeroAddress(outputs[1].outcome.value)
        /\ Len(sample.input.str) <= 256 /\ DenotesZeroAddress(trim(sample.input.str)) =>
               /\ ~outputs[1].outcome.ok
               /\ includes(outputs[1].outcome.error.message, <<"c", "a", "n", "n", "o", "t", " ", "b", "e", " ", "t", "h", "e", " ", "z", "e", "r", "o", " ", "a", "d", "d", "r", "e", "s", "s">>)

\* is the text a number that is not negative, or digits and a unit?
DurationForm(text) ==
    \/ text # <<>> /\ AllIn(text, Digits \cup {"."}) /\ \E i \in 1..Len(text) : text[i] \in Digits
    \/ Len(text) >= 2 /\ AllIn(SubSeq(text, 1, Len(text) - 1), Digits) /\ text[Len(text)] \in {"s", "m", "h", "d", "S", "M", "H", "D"}

\* C22: every value parseDisputeWindow returns is a non-negative integer
\* number of seconds, and an input that is neither a non-negative number nor
\* a string <N>(s|m|h|d) is rejected with the format error.
C22_DurationNonNegative ==
    Len(outputs) >= 1 /\ sample.parser = "parseDisputeWindow" =>
        /\ outputs[1].outcome.ok => outputs[1].outcome.value \in Nat
        /\ \/ sample.input.type = "number" /\ sample.input.num < 0
           \/ sample.input.type = "string" /\ Len(sample.input.str) <= 256 /\ ~DurationForm(trim(sample.input.str))
           => /\ ~outputs[1].outcome.ok
              /\ startsWith(outputs[1].outcome.error.message, <<"I", "n", "v", "a", "l", "i", "d", " ", "d", "i", "s", "p", "u", "t", "e", " ", "w", "i", "n", "d", "o", "w">>)

\* C23: parseDeadline reads a bare hours value N as N hours from now and
\* returns now + N * 3600, when N is a number and when it is the numeric
\* string ("24", the default of the deadline field).
C23_BareHours ==
    Len(outputs) >= 1 /\ sample.parser = "parseDeadline" /\ sample.denotes =>
        /\ outputs[1].outcome.ok
        /\ outputs[1].outcome.value = NowSeconds + sample.units * 3600

\* the lifecycle state names, in lower case, and their numbers
StateNumber(name) ==
    CASE name = <<"i", "n", "i", "t", "i", "a", "t", "e", "d">> -> 0 [] name = <<"q", "u", "o", "t", "e", "d">> -> 1 [] name = <<"c", "o", "m", "m", "i", "t", "t", "e", "d">> -> 2
      [] name \in {<<"i", "n", "_", "p", "r", "o", "g", "r", "e", "s", "s">>, <<"i", "n", "p", "r", "o", "g", "r", "e", "s", "s">>} -> 3 [] name = <<"d", "e", "l", "i", "v", "e", "r", "e", "d">> -> 4 [] name = <<"s", "e", "t", "t", "l", "e", "d">> -> 5
      [] name = <<"d", "i", "s", "p", "u", "t", "e", "d">> -> 6 [] name \in {<<"c", "a", "n", "c", "e", "l", "l", "e", "d">>, <<"c", "a", "n", "c", "e", "l", "e", "d">>} -> 7 [] OTHER -> -1

\* C24: parseState returns the number in 0..7 of every recognised state
\* name, in any letter case, and throws the Invalid state error for every
\* other string; it never returns something that is not a number.
C24_StateNumberOrThrow ==
    Len(outputs) >= 1 /\ sample.parser = "parseState" =>
        /\ outputs[1].outcome.ok => outputs[1].outcome.value.type = "number" /\ outputs[1].outcome.value.num \in 0..7
        /\ StateNumber(toLowerCase(sample.input.str)) >= 0 =>
               outputs[1].outcome.ok /\ outputs[1].outcome.value = Num(StateNumber(toLowerCase(sample.input.str)))
        /\ StateNumber(toLowerCase(sample.input.str)) < 0 /\ sample.input.str \in {<<"u", "n", "k", "n", "o", "w", "n">>, <<>>, <<"c", "o", "n", "s", "t", "r", "u", "c", "t", "o", "r">>, <<"t", "o", "S", "t", "r", "i", "n", "g">>} =>
               ~outputs[1].outcome.ok /\ startsWith(outputs[1].outcome.error.message, <<"I", "n", "v", "a", "l", "i", "d", " ", "s", "t", "a", "t", "e">>)

=============================================================================
